---- MODULE Spec2Model ----
(***************************************************************************)
(* Tiered cache and usage accounting of the Promptly API worker.           *)
(*                                                                         *)
(* One JavaScript isolate runs many requests; code between two awaits runs *)
(* to completion, so every action below is either one such segment of a    *)
(* task or one operation performed by an external store (D1, KV) on behalf *)
(* of a task that awaits it.                                               *)
(*                                                                         *)
(* A nullable value is a sequence: <<>> is null, <<v>> is the value v.     *)
(* Time is in seconds; Date.now() is DateNow(now) milliseconds.            *)
(***************************************************************************)
EXTENDS Integers, Sequences, FiniteSets, TLC

VARIABLES
  now,           \* the wall clock, seconds since the epoch of the model's calendar
  epoch,         \* the clock value the behaviour started at (never changes)
  isolate,       \* how many times the worker's isolate has been started anew
  l1,            \* memoryCache: key -> [value, expiresAt]
  kv,            \* PROMPTS_CACHE (KV namespace): key -> [value, expiration]
  usage,         \* D1 table api_usage: <<organization_id, period>> -> count
  usage0,        \* api_usage as the behaviour started (never changes)
  subscription,  \* D1 table subscription: organization_id -> [plan, status]
  apikey,        \* D1 tables apikey JOIN member: hashed key -> row
  prompt,        \* D1 table prompt: id -> row
  prompt_version,\* D1 table prompt_version: a set of rows
  tasks          \* the async calls in flight: task id -> its locals and position

vars == <<now, epoch, isolate, l1, kv, usage, usage0, subscription, apikey,
          prompt, prompt_version, tasks>>

clock == <<now, epoch, isolate>>
tables == <<subscription, apikey, prompt, prompt_version>>
d1 == <<usage, usage0, tables>>

----------------------------------------------------------------------------
(* Bounds of the model *)

NumTasks == 2
TickLen == 60
MaxElapsed == 120
CountSpread == 1
CacheTickLen == 150
MaxCacheElapsed == 450
MaxRestarts == 1
MaxInFlight == 1

Tasks == 1..NumTasks

----------------------------------------------------------------------------
(* Nullable values *)

Null == <<>>
Some(v) == <<v>>
IsNull(o) == Len(o) = 0
NotNull(o) == Len(o) > 0
Val(o) == o[1]

EmptyMap == [k \in {} |-> 0]

MapPut(m, k, v) == [x \in DOMAIN m \cup {k} |-> IF x = k THEN v ELSE m[x]]
MapDel(m, k) == [x \in DOMAIN m \ {k} |-> m[x]]

Max(a, b) == IF a >= b THEN a ELSE b

----------------------------------------------------------------------------
(* The UTC calendar of Date, with months of equal length *)

SecondsPerDay == 86400
DaysPerMonth == 30
MonthsPerYear == 12

DateNow(t) == t * 1000
DayIndex(t) == t \div SecondsPerDay
MonthIndex(t) == DayIndex(t) \div DaysPerMonth
getUTCDate(t) == (DayIndex(t) % DaysPerMonth) + 1
getUTCMonth(t) == MonthIndex(t) % MonthsPerYear
getUTCFullYear(t) == 1970 + (MonthIndex(t) \div MonthsPerYear)

\* `${year}-${month}`: one string per (year, month)
getCurrentPeriod(t) == <<getUTCFullYear(t), getUTCMonth(t) + 1>>
\* `${year}-${month}-${day}`: one string per (year, month, day)
getCurrentDate(t) == <<getUTCFullYear(t), getUTCMonth(t) + 1, getUTCDate(t)>>

\* Date.UTC(year, month + 1, 1): month 12 rolls over to January of year + 1
DateUTC(year, month, day) ==
  ((((year - 1970) * MonthsPerYear + month) * DaysPerMonth) + (day - 1)) * SecondsPerDay
getNextMonthReset(t) == DateUTC(getUTCFullYear(t), getUTCMonth(t) + 1, 1)
getNextMonthResetUnix(t) == getNextMonthReset(t)

----------------------------------------------------------------------------
(* Local Tier: memoryCache.get / memoryCache.set *)

MemoryCacheLive(c, key, t) == key \in DOMAIN c /\ t < c[key].expiresAt
\* get: the value, or null when absent or expired
MemoryCacheGet(c, key, t) ==
  IF MemoryCacheLive(c, key, t) THEN Some(c[key].value) ELSE Null
\* get evicts an entry it finds expired
MemoryCacheEvict(c, key, t) ==
  IF key \in DOMAIN c /\ ~(t < c[key].expiresAt) THEN MapDel(c, key) ELSE c
MemoryCacheSet(c, key, value, ttl, t) ==
  MapPut(c, key, [value |-> value, expiresAt |-> t + ttl])

----------------------------------------------------------------------------
(* Usage accounting: src/src/usage.ts *)

FREE_LIMIT == 5000
PRO_LIMIT == 50000
USAGE_CACHE_TTL == 60
PLAN_CACHE_TTL == 300

Orgs == {"o1", "o2"}

\* Mutant: the key of a snapshot without its period
UsageKey_NoPeriod(org, period) == <<"usage", org>>

UsageKey(org, period) == <<"usage", org, period>>
PlanKey(org) == <<"plan", org>>

\* SELECT count FROM api_usage WHERE organization_id = ? AND period = ?
SelectUsageCount(u, org, period) ==
  IF <<org, period>> \in DOMAIN u THEN Some(u[<<org, period>>]) ELSE Null

\* Mutant: the upsert as INSERT OR REPLACE, which starts the count over
UpsertUsage_Replace(u, org, period) == MapPut(u, <<org, period>>, 1)

\* INSERT ... VALUES (?, ?, 1, ...) ON CONFLICT DO UPDATE SET count = count + 1
UpsertUsage(u, org, period) ==
  IF <<org, period>> \in DOMAIN u
    THEN [u EXCEPT ![<<org, period>>] = @ + 1]
    ELSE MapPut(u, <<org, period>>, 1)

\* Mutant: the batch holds the monthly upsert only
BatchUpsert_MonthlyOnly(u, org, period, dailyPeriod) == UpsertUsage(u, org, period)

\* Mutant: the batch holds the daily upsert only
BatchUpsert_DailyOnly(u, org, period, dailyPeriod) == UpsertUsage(u, org, dailyPeriod)

\* env.promptly.batch([monthly upsert, daily upsert]): one transaction
BatchUpsert(u, org, period, dailyPeriod) ==
  UpsertUsage(UpsertUsage(u, org, period), org, dailyPeriod)

\* SELECT plan, status FROM subscription WHERE organization_id = ? LIMIT 1
SelectSubscription(s, org) ==
  IF org \in DOMAIN s THEN Some(s[org]) ELSE Null

\* Mutant: the plan of the row whatever its status
PlanInfoOf_AnyStatus(sub) ==
  IF NotNull(sub)
    THEN IF Val(sub).plan = "enterprise"
           THEN [plan |-> "enterprise", limit |-> Null]
           ELSE IF Val(sub).plan = "pro"
                  THEN [plan |-> "pro", limit |-> Some(PRO_LIMIT)]
                  ELSE [plan |-> "free", limit |-> Some(FREE_LIMIT)]
    ELSE [plan |-> "free", limit |-> Some(FREE_LIMIT)]

\* getPlanInfo, from the subscription row to the plan
PlanInfoOf(sub) ==
  IF NotNull(sub) /\ Val(sub).status \in {"active", "trialing"}
    THEN IF Val(sub).plan = "enterprise"
           THEN [plan |-> "enterprise", limit |-> Null]
           ELSE IF Val(sub).plan = "pro"
                  THEN [plan |-> "pro", limit |-> Some(PRO_LIMIT)]
                  ELSE [plan |-> "free", limit |-> Some(FREE_LIMIT)]
    ELSE [plan |-> "free", limit |-> Some(FREE_LIMIT)]

\* Mutant: the boundary off by one (count <= limit)
buildUsageStatus_OffByOne(count, planInfo, t) ==
  IF IsNull(planInfo.limit)
    THEN [allowed |-> TRUE, plan |-> planInfo.plan, limit |-> Null,
          used |-> count, remaining |-> Null, resetAt |-> getNextMonthReset(t)]
    ELSE [allowed |-> count <= Val(planInfo.limit), plan |-> planInfo.plan,
          limit |-> planInfo.limit, used |-> count,
          remaining |-> Some(Max(0, Val(planInfo.limit) - count)),
          resetAt |-> getNextMonthReset(t)]

\* Mutant: no branch for the null limit, which then counts as the number 0
buildUsageStatus_NullAsZero(count, planInfo, t) ==
  LET limit == IF IsNull(planInfo.limit) THEN 0 ELSE Val(planInfo.limit)
  IN [allowed |-> count < limit, plan |-> planInfo.plan,
      limit |-> planInfo.limit, used |-> count,
      remaining |-> Some(Max(0, limit - count)),
      resetAt |-> getNextMonthReset(t)]

buildUsageStatus(count, planInfo, t) ==
  IF IsNull(planInfo.limit)
    THEN [allowed |-> TRUE, plan |-> planInfo.plan, limit |-> Null,
          used |-> count, remaining |-> Null, resetAt |-> getNextMonthReset(t)]
    ELSE [allowed |-> count < Val(planInfo.limit), plan |-> planInfo.plan,
          limit |-> planInfo.limit, used |-> count,
          remaining |-> Some(Max(0, Val(planInfo.limit) - count)),
          resetAt |-> getNextMonthReset(t)]

----------------------------------------------------------------------------
(* Tasks *)

IdleTask == [top |-> "none", pc |-> "idle"]

\* The locals of tk with those of loc added or replaced
With(tk, loc) == loc @@ tk

\* checkUsageLimit returns to its caller: handleRequest resumes in a later
\* microtask, a direct call is over
CheckUsageLimitReturn(tk, status) ==
  [tk EXCEPT !.pc = IF tk.top = "handleRequest" THEN "hr_usage" ELSE "done",
             !.usageStatus = Some(status)]

\* checkUsageLimit up to its first suspension: both memoryCache reads, and the
\* D1 queries issued for what they missed
CheckUsageLimitCall(tk, org, c, t) ==
  LET period == getCurrentPeriod(t)
      cached == MemoryCacheGet(c, UsageKey(org, period), t)
      c1 == MemoryCacheEvict(c, UsageKey(org, period), t)
      planCached == MemoryCacheGet(c1, PlanKey(org), t)
      c2 == MemoryCacheEvict(c1, PlanKey(org), t)
      loc == [org |-> org, period |-> period, pc |-> "cul_wait",
              cachedUsage |-> cached,
              countSt |-> IF NotNull(cached) THEN "none" ELSE "pending",
              countRow |-> Null,
              planSt |-> IF NotNull(planCached) THEN "ready" ELSE "pending",
              subRow |-> Null,
              planInfo |-> planCached,
              usageStatus |-> Null]
  IN [task |-> With(tk, loc), l1 |-> c2]

\* The subscription query of getPlanInfo is answered by D1
D1SelectSubscription(t) ==
  /\ tasks[t].pc = "cul_wait"
  /\ tasks[t].planSt = "pending"
  /\ tasks' = [tasks EXCEPT ![t].planSt = "fetched",
                            ![t].subRow = SelectSubscription(subscription, tasks[t].org)]
  /\ UNCHANGED <<clock, l1, kv, d1>>

\* getPlanInfo after its query: the plan is computed and cached in L1 only
GetPlanInfoResume(t) ==
  /\ tasks[t].pc = "cul_wait"
  /\ tasks[t].planSt = "fetched"
  /\ LET planInfo == PlanInfoOf(tasks[t].subRow)
     IN /\ l1' = MemoryCacheSet(l1, PlanKey(tasks[t].org), planInfo, PLAN_CACHE_TTL, now)
        /\ tasks' = [tasks EXCEPT ![t].planSt = "ready",
                                  ![t].planInfo = Some(planInfo)]
  /\ UNCHANGED <<clock, kv, d1>>

\* Mutant: the count query creates the row it does not find
D1SelectCount_InsertMissing(t) ==
  /\ tasks[t].pc = "cul_wait"
  /\ tasks[t].countSt = "pending"
  /\ usage' = IF <<tasks[t].org, tasks[t].period>> \in DOMAIN usage
                 THEN usage
                 ELSE MapPut(usage, <<tasks[t].org, tasks[t].period>>, 0)
  /\ tasks' = [tasks EXCEPT ![t].countSt = "ready",
                            ![t].countRow = SelectUsageCount(usage', tasks[t].org, tasks[t].period)]
  /\ UNCHANGED <<clock, l1, kv, usage0, tables>>

\* The count query of checkUsageLimit is answered by D1
D1SelectCount(t) ==
  /\ tasks[t].pc = "cul_wait"
  /\ tasks[t].countSt = "pending"
  /\ tasks' = [tasks EXCEPT ![t].countSt = "ready",
                            ![t].countRow = SelectUsageCount(usage, tasks[t].org, tasks[t].period)]
  /\ UNCHANGED <<clock, l1, kv, d1>>

\* Mutant: the snapshot is written through to KV as well
CheckUsageLimitResume_WriteThrough(t) ==
  /\ tasks[t].pc = "cul_wait"
  /\ tasks[t].planSt = "ready"
  /\ tasks[t].countSt \in {"none", "ready"}
  /\ LET tk == tasks[t]
         count == IF NotNull(tk.countRow) THEN Val(tk.countRow) ELSE 0
         used == IF NotNull(tk.cachedUsage) THEN Val(tk.cachedUsage).count ELSE count
         snapshot == [count |-> used, period |-> tk.period]
     IN /\ tasks' = [tasks EXCEPT ![t] = CheckUsageLimitReturn(tk,
                         buildUsageStatus(used, Val(tk.planInfo), now))]
        /\ l1' = MemoryCacheSet(l1, UsageKey(tk.org, tk.period), snapshot,
                                USAGE_CACHE_TTL, now)
        /\ kv' = MapPut(kv, UsageKey(tk.org, tk.period),
                        [value |-> snapshot, expiration |-> Some(now + USAGE_CACHE_TTL)])
  /\ UNCHANGED <<clock, d1>>

\* checkUsageLimit after its awaits: on a hit the status of the cached count,
\* on a miss the count of the row (0 without a row) cached in L1 only
CheckUsageLimitResume(t) ==
  /\ tasks[t].pc = "cul_wait"
  /\ tasks[t].planSt = "ready"
  /\ tasks[t].countSt \in {"none", "ready"}
  /\ LET tk == tasks[t]
         count == IF NotNull(tk.countRow) THEN Val(tk.countRow) ELSE 0
     IN IF NotNull(tk.cachedUsage)
          THEN /\ tasks' = [tasks EXCEPT ![t] = CheckUsageLimitReturn(tk,
                              buildUsageStatus(Val(tk.cachedUsage).count, Val(tk.planInfo), now))]
               /\ l1' = l1
          ELSE /\ tasks' = [tasks EXCEPT ![t] = CheckUsageLimitReturn(tk,
                              buildUsageStatus(count, Val(tk.planInfo), now))]
               /\ l1' = MemoryCacheSet(l1, UsageKey(tk.org, tk.period),
                                       [count |-> count, period |-> tk.period],
                                       USAGE_CACHE_TTL, now)
  /\ UNCHANGED <<clock, kv, d1>>

\* incrementUsage up to its await: the periods are read and the batch is issued
IncrementUsageCall(tk, org, t) ==
  With(tk, [incOrg |-> org, incPeriod |-> getCurrentPeriod(t),
            incDaily |-> getCurrentDate(t), pc |-> "inc_wait",
            batchSt |-> "pending", incOutcome |-> "pending", incBumped |-> FALSE])

\* Mutant: a batch that is no transaction, the fault coming after the monthly
\* upsert
D1Batch_NotAtomic(t) ==
  /\ tasks[t].pc = "inc_wait"
  /\ tasks[t].batchSt = "pending"
  /\ \E ok \in BOOLEAN :
       /\ usage' = IF ok
                     THEN BatchUpsert(usage, tasks[t].incOrg, tasks[t].incPeriod,
                                      tasks[t].incDaily)
                     ELSE UpsertUsage(usage, tasks[t].incOrg, tasks[t].incPeriod)
       /\ tasks' = [tasks EXCEPT ![t].batchSt = IF ok THEN "ok" ELSE "failed"]
  /\ UNCHANGED <<clock, l1, kv, usage0, tables>>

\* D1 runs the batch: both upserts, or on a fault neither
D1Batch(t) ==
  /\ tasks[t].pc = "inc_wait"
  /\ tasks[t].batchSt = "pending"
  /\ \E ok \in BOOLEAN :
       /\ usage' = IF ok
                     THEN BatchUpsert(usage, tasks[t].incOrg, tasks[t].incPeriod,
                                      tasks[t].incDaily)
                     ELSE usage
       /\ tasks' = [tasks EXCEPT ![t].batchSt = IF ok THEN "ok" ELSE "failed"]
  /\ UNCHANGED <<clock, l1, kv, usage0, tables>>

\* Mutant: without a snapshot the increment creates one that counts 1
IncrementUsageResume_CreatesSnapshot(t) ==
  /\ tasks[t].pc = "inc_wait"
  /\ tasks[t].batchSt \in {"ok", "failed"}
  /\ LET tk == tasks[t]
         key == UsageKey(tk.incOrg, tk.incPeriod)
         cached == MemoryCacheGet(l1, key, now)
         c1 == MemoryCacheEvict(l1, key, now)
         count == IF NotNull(cached) THEN Val(cached).count ELSE 0
     IN IF tk.batchSt = "ok"
          THEN /\ l1' = MemoryCacheSet(c1, key, [count |-> count + 1, period |-> tk.incPeriod],
                                       USAGE_CACHE_TTL, now)
               /\ tasks' = [tasks EXCEPT ![t].pc = "done",
                                         ![t].incOutcome = "resolved",
                                         ![t].incBumped = NotNull(cached)]
          ELSE /\ l1' = l1
               /\ tasks' = [tasks EXCEPT ![t].pc = "done",
                                         ![t].incOutcome = "resolved"]
  /\ UNCHANGED <<clock, kv, d1>>

\* Mutant: no catch around the batch, so its rejection rejects incrementUsage
IncrementUsageResume_NoCatch(t) ==
  /\ tasks[t].pc = "inc_wait"
  /\ tasks[t].batchSt \in {"ok", "failed"}
  /\ LET tk == tasks[t]
         key == UsageKey(tk.incOrg, tk.incPeriod)
         cached == MemoryCacheGet(l1, key, now)
         c1 == MemoryCacheEvict(l1, key, now)
     IN IF tk.batchSt = "ok"
          THEN /\ l1' = IF NotNull(cached)
                          THEN MemoryCacheSet(c1, key,
                                 [Val(cached) EXCEPT !.count = @ + 1],
                                 USAGE_CACHE_TTL, now)
                          ELSE c1
               /\ tasks' = [tasks EXCEPT ![t].pc = "done",
                                         ![t].incOutcome = "resolved",
                                         ![t].incBumped = NotNull(cached)]
          ELSE /\ l1' = l1
               /\ tasks' = [tasks EXCEPT ![t].pc = "done",
                                         ![t].incOutcome = "rejected"]
  /\ UNCHANGED <<clock, kv, d1>>

\* incrementUsage after the batch: the L1 snapshot, when there is one, is
\* replaced by one with count + 1; a rejected batch is caught and logged
IncrementUsageResume(t) ==
  /\ tasks[t].pc = "inc_wait"
  /\ tasks[t].batchSt \in {"ok", "failed"}
  /\ LET tk == tasks[t]
         key == UsageKey(tk.incOrg, tk.incPeriod)
         cached == MemoryCacheGet(l1, key, now)
         c1 == MemoryCacheEvict(l1, key, now)
     IN IF tk.batchSt = "ok"
          THEN /\ l1' = IF NotNull(cached)
                          THEN MemoryCacheSet(c1, key,
                                 [Val(cached) EXCEPT !.count = @ + 1],
                                 USAGE_CACHE_TTL, now)
                          ELSE c1
               /\ tasks' = [tasks EXCEPT ![t].pc = "done",
                                         ![t].incOutcome = "resolved",
                                         ![t].incBumped = NotNull(cached)]
          ELSE /\ l1' = l1
               /\ tasks' = [tasks EXCEPT ![t].pc = "done",
                                         ![t].incOutcome = "resolved"]
  /\ UNCHANGED <<clock, kv, d1>>

\* Task ids carry no meaning: the idle task with the least id takes the next call
CanStart(t) ==
  /\ tasks[t].pc = "idle"
  /\ \A u \in Tasks : u < t => tasks[u].pc # "idle"

\* A caller in this isolate calls checkUsageLimit(env, org)
CallCheckUsageLimit(t) ==
  /\ CanStart(t)
  /\ \E org \in Orgs :
       LET r == CheckUsageLimitCall([top |-> "checkUsageLimit"], org, l1, now)
       IN /\ tasks' = [tasks EXCEPT ![t] = r.task]
          /\ l1' = r.l1
  /\ UNCHANGED <<clock, kv, d1>>

\* A caller in this isolate calls incrementUsage(env, org)
CallIncrementUsage(t) ==
  /\ CanStart(t)
  /\ \E org \in Orgs :
       tasks' = [tasks EXCEPT ![t] = IncrementUsageCall([top |-> "incrementUsage"], org, now)]
  /\ UNCHANGED <<clock, l1, kv, d1>>

\* Time passes: d seconds, up to maxElapsed since the start
Advance(d, maxElapsed) ==
  /\ (now - epoch) + d <= maxElapsed
  /\ now' = now + d
  /\ UNCHANGED <<epoch, isolate, l1, kv, d1, tasks>>

Tick == Advance(TickLen, MaxElapsed)

----------------------------------------------------------------------------
(* The usage accounter under concurrent callers *)

\* The clock starts one tick before a month ends: the first tick of a
\* behaviour changes the period, the later ones stay in it
StartTimes == {DaysPerMonth * SecondsPerDay - TickLen}

\* The plan limit of an org under subscription table s (0 for no limit)
LimitOrZero(s, o) ==
  LET p == PlanInfoOf(SelectSubscription(s, o))
  IN IF IsNull(p.limit) THEN 0 ELSE Val(p.limit)

\* The rows of api_usage when every org has, today, come to d calls below its
\* plan's limit (an org without a limit: below the greatest limit there is)
UsageRows(s, d, t) ==
  [k \in {<<o, p>> : o \in Orgs, p \in {getCurrentPeriod(t), getCurrentDate(t)}} |->
     (IF LimitOrZero(s, k[1]) = 0 THEN PRO_LIMIT ELSE LimitOrZero(s, k[1])) - d]

\* api_usage at the start: empty, or every org at or just below its limit
InitUsageTables(s, t) ==
  {EmptyMap} \cup {UsageRows(s, d, t) : d \in 0..CountSpread}

\* o1 has no subscription (free); o2 has an active paid one
SubscriptionRows ==
  {[o \in {"o2"} |-> [plan |-> p, status |-> "active"]] : p \in {"pro", "enterprise"}}

InitUsage ==
  /\ epoch \in StartTimes
  /\ now = epoch
  /\ isolate = 0
  /\ l1 = EmptyMap
  /\ kv = EmptyMap
  /\ apikey = EmptyMap
  /\ prompt = EmptyMap
  /\ prompt_version = {}
  /\ subscription \in SubscriptionRows
  /\ usage \in InitUsageTables(subscription, epoch)
  /\ usage0 = usage
  /\ tasks = [t \in Tasks |-> IdleTask]

NextUsage ==
  \/ \E t \in Tasks : CallCheckUsageLimit(t)
  \/ \E t \in Tasks : D1SelectSubscription(t)
  \/ \E t \in Tasks : GetPlanInfoResume(t)
  \/ \E t \in Tasks : D1SelectCount(t)
  \/ \E t \in Tasks : CheckUsageLimitResume(t)
  \/ \E t \in Tasks : CallIncrementUsage(t)
  \/ \E t \in Tasks : D1Batch(t)
  \/ \E t \in Tasks : IncrementUsageResume(t)
  \/ Tick

SpecUsage == InitUsage /\ [][NextUsage]_vars

----------------------------------------------------------------------------
(* Claims about the usage accounter *)

\* The count of a row of api_usage, 0 when there is no row
RowCount(u, k) == IF k \in DOMAIN u THEN u[k] ELSE 0

\* The incrementUsage calls whose batch D1 has run for row k
Incremented(k) ==
  {t \in Tasks : /\ "batchSt" \in DOMAIN tasks[t]
                 /\ tasks[t].batchSt = "ok"
                 /\ k \in {<<tasks[t].incOrg, tasks[t].incPeriod>>,
                           <<tasks[t].incOrg, tasks[t].incDaily>>}}

UsageRowKeys == DOMAIN usage \cup DOMAIN usage0

NoLostUpdate ==
  \A k \in UsageRowKeys :
    RowCount(usage, k) = RowCount(usage0, k) + Cardinality(Incremented(k))

CountNeverDecreases ==
  \A k \in DOMAIN usage : k \in DOMAIN usage' /\ usage'[k] >= usage[k]

\* C1: the durable count of every (tenant, period) never decreases, and it is
\* its value before the incrementUsage calls plus the number of those calls
\* D1 has run, whatever the interleaving of the calls
C1_NoLostUpdates == [][CountNeverDecreases]_vars /\ []NoLostUpdate

\* Two incrementUsage calls for one tenant and period are over, in any
\* interleaving of their steps, and the row counts two more than before them
C1_Witness ==
  /\ \A t \in {1, 2} : /\ tasks[t].top = "incrementUsage"
                       /\ tasks[t].pc = "done"
                       /\ tasks[t].batchSt = "ok"
  /\ tasks[1].incOrg = tasks[2].incOrg
  /\ tasks[1].incPeriod = tasks[2].incPeriod
  /\ RowCount(usage, <<tasks[1].incOrg, tasks[1].incPeriod>>)
       = RowCount(usage0, <<tasks[1].incOrg, tasks[1].incPeriod>>) + 2

\* The checkUsageLimit calls that have returned
CheckReturned ==
  {t \in Tasks : tasks[t].top = "checkUsageLimit" /\ tasks[t].pc = "done"}

\* The count a checkUsageLimit call went by: the cached one, or the row's
CountOf(tk) ==
  IF NotNull(tk.cachedUsage) THEN Val(tk.cachedUsage).count
  ELSE IF NotNull(tk.countRow) THEN Val(tk.countRow) ELSE 0

\* C2: with a finite limit L and a count c, checkUsageLimit reports
\* allowed = (c < L) and remaining = max(0, L - c): allowed with 1 remaining at
\* c = L - 1, refused with 0 remaining at c = L and at every c > L
C2_QuotaBoundary ==
  \A t \in CheckReturned :
    LET tk == tasks[t]
        st == Val(tk.usageStatus)
        c == CountOf(tk)
    IN NotNull(Val(tk.planInfo).limit) =>
         LET L == Val(Val(tk.planInfo).limit)
         IN /\ st.allowed = (c < L)
            /\ st.remaining = Some(Max(0, L - c))
            /\ st.used = c /\ st.limit = Some(L)
            /\ (c = L - 1 => st.allowed /\ st.remaining = Some(1))
            /\ (c >= L => ~st.allowed /\ st.remaining = Some(0))

\* A call has returned at c = L - 1, allowed and with 1 remaining
C2_Witness ==
  \E t \in CheckReturned :
    /\ NotNull(Val(tasks[t].planInfo).limit)
    /\ CountOf(tasks[t]) = Val(Val(tasks[t].planInfo).limit) - 1
    /\ Val(tasks[t].usageStatus).allowed
    /\ Val(tasks[t].usageStatus).remaining = Some(1)

\* C4: no step of a checkUsageLimit call, on a cache hit or on a miss, inserts
\* or changes a row of the durable store
C4_CheckIsReadOnly ==
  [][\A t \in Tasks :
       (tasks'[t].top = "checkUsageLimit" /\ tasks'[t] # tasks[t])
         => (usage' = usage /\ subscription' = subscription)]_vars

\* A call that missed the cache (and read D1) and a call that hit it have both
\* returned, for a tenant that has no row
C4_Witness ==
  /\ tasks[1].top = "checkUsageLimit" /\ tasks[1].pc = "done"
  /\ tasks[2].top = "checkUsageLimit" /\ tasks[2].pc = "done"
  /\ tasks[1].org = tasks[2].org
  /\ tasks[1].countSt = "ready" /\ IsNull(tasks[1].countRow)
  /\ NotNull(tasks[2].cachedUsage)
  /\ usage = usage0

\* The incrementUsage calls that are over
IncrementSettled ==
  {t \in Tasks : "incOutcome" \in DOMAIN tasks[t] /\ tasks[t].pc = "done"}

\* C6: incrementUsage never rejects: with the batch refused by D1 it still
\* resolves
C6_IncrementNeverThrows ==
  \A t \in Tasks :
    "incOutcome" \in DOMAIN tasks[t] =>
      /\ tasks[t].incOutcome # "rejected"
      /\ (tasks[t].pc = "done" => tasks[t].incOutcome = "resolved")

\* An incrementUsage call whose batch D1 refused is over
C6_Witness ==
  \E t \in IncrementSettled : tasks[t].batchSt = "failed"

\* C7: checkUsageLimit and incrementUsage never write KV, which holds no
\* usage: or plan: key
C7_UsageKeysLocalOnly ==
  /\ [][kv' = kv]_vars
  /\ [](\A k \in DOMAIN kv : k[1] \notin {"usage", "plan"})

\* Both kinds of key are in L1 after a checkUsageLimit that missed and an
\* incrementUsage that replaced the snapshot
C7_Witness ==
  /\ \E k \in DOMAIN l1 : k[1] = "usage"
  /\ \E k \in DOMAIN l1 : k[1] = "plan"
  /\ \E t \in IncrementSettled : tasks[t].incBumped
  /\ DOMAIN kv = {}

----------------------------------------------------------------------------
(* Shared Tier: the KV namespace PROMPTS_CACHE *)

\* JSON.stringify / kv.get(key, 'json'): the text of a value, and the value of
\* a text. The cached values hold strings, numbers, booleans, null, arrays and
\* objects only, which the text keeps apart.
JsonStringify(v) == [json |-> v]
JsonParse(text) == text.json

\* kv.get(key, 'json'): null for a key never put, or whose expiration has come
KvRead(k, key, t) ==
  IF key \in DOMAIN k /\ (IsNull(k[key].expiration) \/ t < Val(k[key].expiration))
    THEN Some(JsonParse(k[key].value))
    ELSE Null

\* kv.put(key, text, options): options.expirationTtl seconds from now, or no
\* expiration without options
KvWrite(k, key, text, options, t) ==
  MapPut(k, key, [value |-> text,
                  expiration |-> IF NotNull(options) THEN Some(t + Val(options)) ELSE Null])

----------------------------------------------------------------------------
(* Tiered cache: src/cache.ts (L1 memoryCache, L2 KV) *)

L1_TTL == 300
L2_TTL == 300

\* A call of the facade that returns makes a direct caller's task end
FacadeReturn(tk) ==
  IF tk.top \in {"getFromCache", "setInCache"} THEN [tk EXCEPT !.pc = "done"] ELSE tk

\* Mutant: KV is read first, whatever L1 holds
GetFromCacheCall_KvFirst(key, c, t, g) ==
  [op |-> "get", key |-> key, st |-> "kv_pending", val |-> Null, layer |-> "none",
   kvRead |-> FALSE, kvRes |-> Null, retAt |-> 0, gen |-> g]

\* getFromCache up to its await: an L1 hit returns at once, a miss issues kv.get
GetFromCacheCall(key, c, t, g) ==
  LET hit == MemoryCacheGet(c, key, t)
  IN [op |-> "get", key |-> key,
      st |-> IF NotNull(hit) THEN "returned" ELSE "kv_pending",
      val |-> hit,
      layer |-> IF NotNull(hit) THEN "L1" ELSE "none",
      kvRead |-> FALSE, kvRes |-> Null,
      retAt |-> IF NotNull(hit) THEN t ELSE 0, gen |-> g]

\* KV answers the kv.get of call i of task t
KvGet(t, i) ==
  /\ "calls" \in DOMAIN tasks[t]
  /\ i \in DOMAIN tasks[t].calls
  /\ tasks[t].calls[i].st = "kv_pending"
  /\ tasks' = [tasks EXCEPT ![t].calls[i].st = "kv_got",
                            ![t].calls[i].kvRead = TRUE,
                            ![t].calls[i].kvRes = KvRead(kv, tasks[t].calls[i].key, now)]
  /\ UNCHANGED <<clock, l1, kv, d1>>

\* Mutant: a KV hit is returned without being promoted to L1
GetFromCacheResume_NoPromotion(t, i) ==
  /\ "calls" \in DOMAIN tasks[t]
  /\ i \in DOMAIN tasks[t].calls
  /\ tasks[t].calls[i].st = "kv_got"
  /\ LET call == tasks[t].calls[i]
     IN /\ l1' = l1
        /\ tasks' = [tasks EXCEPT ![t] = FacadeReturn(
                       [tasks[t] EXCEPT !.calls[i].st = "returned",
                                        !.calls[i].val = call.kvRes,
                                        !.calls[i].layer = IF NotNull(call.kvRes) THEN "L2" ELSE "miss",
                                        !.calls[i].retAt = now])]
  /\ UNCHANGED <<clock, kv, d1>>

\* getFromCache after kv.get: a hit is promoted to L1 and returned, a miss
\* returns null
GetFromCacheResume(t, i) ==
  /\ "calls" \in DOMAIN tasks[t]
  /\ i \in DOMAIN tasks[t].calls
  /\ tasks[t].calls[i].st = "kv_got"
  /\ LET call == tasks[t].calls[i]
     IN /\ l1' = IF NotNull(call.kvRes)
                   THEN MemoryCacheSet(l1, call.key, Val(call.kvRes), L1_TTL, now)
                   ELSE l1
        /\ tasks' = [tasks EXCEPT ![t] = FacadeReturn(
                       [tasks[t] EXCEPT !.calls[i].st = "returned",
                                        !.calls[i].val = call.kvRes,
                                        !.calls[i].layer = IF NotNull(call.kvRes) THEN "L2" ELSE "miss",
                                        !.calls[i].retAt = now])]
  /\ UNCHANGED <<clock, kv, d1>>

\* Mutant: an entry that is live is kept, the first write wins
SetInCacheL1_KeepsFirst(c, key, value, t) ==
  IF MemoryCacheLive(c, key, t) THEN c ELSE MemoryCacheSet(c, key, value, L1_TTL, t)

\* setInCache always writes L1 first, with the fixed TTL
SetInCacheL1(c, key, value, t) == MemoryCacheSet(c, key, value, L1_TTL, t)

\* Mutant: a missing TTL falls back to the default one (kvTtl ?? L2_TTL)
SetInCacheCall_DefaultTtl(key, value, kvTtl, g) ==
  [op |-> "set", key |-> key, value |-> value, kvTtl |-> kvTtl,
   st |-> "put_pending",
   options |-> IF NotNull(kvTtl) /\ Val(kvTtl) = 0 THEN Null
               ELSE IF NotNull(kvTtl) THEN kvTtl ELSE Some(L2_TTL),
   kvWritten |-> FALSE, gen |-> g]

\* setInCache up to its await, after its write of L1: with a kvTtl the kv.put is
\* issued (expirationTtl = kvTtl if positive, no options for 0), without one the
\* call returns
SetInCacheCall(key, value, kvTtl, g) ==
  [op |-> "set", key |-> key, value |-> value, kvTtl |-> kvTtl,
   st |-> IF NotNull(kvTtl) THEN "put_pending" ELSE "returned",
   options |-> IF NotNull(kvTtl) /\ Val(kvTtl) > 0 THEN kvTtl ELSE Null,
   kvWritten |-> FALSE, gen |-> g]

\* KV runs the kv.put of call i of task t
KvPut(t, i) ==
  /\ "calls" \in DOMAIN tasks[t]
  /\ i \in DOMAIN tasks[t].calls
  /\ tasks[t].calls[i].st = "put_pending"
  /\ LET call == tasks[t].calls[i]
     IN kv' = KvWrite(kv, call.key, JsonStringify(call.value), call.options, now)
  /\ tasks' = [tasks EXCEPT ![t].calls[i].st = "put_done",
                            ![t].calls[i].kvWritten = TRUE]
  /\ UNCHANGED <<clock, l1, d1>>

\* setInCache after kv.put: it logs and returns
SetInCacheResume(t, i) ==
  /\ "calls" \in DOMAIN tasks[t]
  /\ i \in DOMAIN tasks[t].calls
  /\ tasks[t].calls[i].st = "put_done"
  /\ tasks' = [tasks EXCEPT ![t] = FacadeReturn(
                 [tasks[t] EXCEPT !.calls[i].st = "returned"])]
  /\ UNCHANGED <<clock, l1, kv, d1>>

\* The isolate is evicted and a new one started: memoryCache is empty again.
\* No call is in flight then.
IsolateRestart ==
  /\ isolate < MaxRestarts
  /\ \A t \in Tasks : tasks[t].pc \in {"idle", "done"}
  /\ isolate' = isolate + 1
  /\ l1' = EmptyMap
  /\ UNCHANGED <<now, epoch, kv, d1, tasks>>

----------------------------------------------------------------------------
(* The facade under direct callers *)

FacadeKeys == {<<"prompt", "p1">>, <<"version", "p1", "latest">>}
FacadeValues == {"v1"}
\* kvTtl: left out, 0, or a number of seconds
FacadeTtls == {Null, Some(0), Some(L2_TTL)}

CallGetFromCache(t) ==
  /\ CanStart(t)
  /\ \E key \in FacadeKeys :
       LET call == GetFromCacheCall(key, l1, now, isolate)
       IN /\ tasks' = [tasks EXCEPT ![t] =
                         IF call.st = "returned"
                           THEN [top |-> "getFromCache", pc |-> "done", calls |-> <<call>>]
                           ELSE [top |-> "getFromCache", pc |-> "cache_wait", calls |-> <<call>>]]
          /\ l1' = MemoryCacheEvict(l1, key, now)
  /\ UNCHANGED <<clock, kv, d1>>

CallSetInCache(t) ==
  /\ CanStart(t)
  /\ \E key \in FacadeKeys, value \in FacadeValues, kvTtl \in FacadeTtls :
       LET call == SetInCacheCall(key, value, kvTtl, isolate)
       IN /\ tasks' = [tasks EXCEPT ![t] =
                         IF call.st = "returned"
                           THEN [top |-> "setInCache", pc |-> "done", calls |-> <<call>>]
                           ELSE [top |-> "setInCache", pc |-> "cache_wait", calls |-> <<call>>]]
          /\ l1' = SetInCacheL1(l1, key, value, now)
  /\ UNCHANGED <<clock, kv, d1>>

TickCache == Advance(CacheTickLen, MaxCacheElapsed)

\* KV at the start: empty, or holding what another isolate has just put with
\* the default TTL
InitKvStates ==
  {EmptyMap,
   [k \in {<<"prompt", "p1">>} |->
      [value |-> JsonStringify("v0"), expiration |-> Some(L2_TTL)]]}

InitCache ==
  /\ epoch = 0
  /\ now = epoch
  /\ isolate = 0
  /\ l1 = EmptyMap
  /\ kv \in InitKvStates
  /\ usage = EmptyMap
  /\ usage0 = usage
  /\ subscription = EmptyMap
  /\ apikey = EmptyMap
  /\ prompt = EmptyMap
  /\ prompt_version = {}
  /\ tasks = [t \in Tasks |-> IdleTask]

NextCache ==
  \/ \E t \in Tasks : CallGetFromCache(t)
  \/ \E t \in Tasks : CallSetInCache(t)
  \/ \E t \in Tasks : KvGet(t, 1)
  \/ \E t \in Tasks : GetFromCacheResume(t, 1)
  \/ \E t \in Tasks : KvPut(t, 1)
  \/ \E t \in Tasks : SetInCacheResume(t, 1)
  \/ TickCache
  \/ IsolateRestart

SpecCache == InitCache /\ [][NextCache]_vars

----------------------------------------------------------------------------
(* Claims about the tiered cache *)

\* Task t makes a direct call of the facade in this step
StartsFacadeCall(t, top) ==
  tasks[t].pc = "idle" /\ tasks'[t].top = top

\* The calls of the facade made so far, as <<task, index>>
FacadeCalls(op) ==
  {c \in Tasks \X {1, 2} :
     /\ "calls" \in DOMAIN tasks[c[1]]
     /\ c[2] \in DOMAIN tasks[c[1]].calls
     /\ tasks[c[1]].calls[c[2]].op = op}

CallOf(c) == tasks[c[1]].calls[c[2]]

\* A getFromCache that finds an unexpired L1 entry returns its value in the
\* same step, with no kv.get issued
L1HitReturnsAtOnce ==
  \A t \in Tasks :
    (StartsFacadeCall(t, "getFromCache")
       /\ MemoryCacheLive(l1, tasks'[t].calls[1].key, now))
    => /\ tasks'[t].pc = "done"
       /\ tasks'[t].calls[1].st = "returned"
       /\ tasks'[t].calls[1].val = Some(l1[tasks'[t].calls[1].key].value)
       /\ tasks'[t].calls[1].layer = "L1"
       /\ ~tasks'[t].calls[1].kvRead

\* A call served by L1 has read KV at no time
L1HitNeverReadsKv ==
  \A c \in FacadeCalls("get") :
    CallOf(c).layer = "L1" => (~CallOf(c).kvRead /\ IsNull(CallOf(c).kvRes))

\* C8: getFromCache consults L1 first, and returns the value of an unexpired L1
\* entry without any KV read
C8_L1First == [][L1HitReturnsAtOnce]_vars /\ []L1HitNeverReadsKv

\* A getFromCache was served by L1 while KV holds another value for the key (or
\* none): the value returned is L1's
C8_Witness ==
  \E c \in FacadeCalls("get") :
    /\ CallOf(c).layer = "L1"
    /\ CallOf(c).st = "returned"
    /\ KvRead(kv, CallOf(c).key, now) # CallOf(c).val

\* A getFromCache that returns a KV hit has put it in L1 with L1_TTL
PromotesKvHit ==
  \A c \in FacadeCalls("get") :
    (CallOf(c).st = "kv_got" /\ tasks'[c[1]].calls[c[2]].st = "returned"
       /\ NotNull(CallOf(c).kvRes))
    => /\ CallOf(c).key \in DOMAIN l1'
       /\ l1'[CallOf(c).key] = [value |-> Val(CallOf(c).kvRes),
                                expiresAt |-> now + L1_TTL]
       /\ tasks'[c[1]].calls[c[2]].val = CallOf(c).kvRes

\* The calls that returned a KV hit in this isolate less than L1_TTL ago
PromotedHere(key) ==
  {c \in FacadeCalls("get") :
     /\ CallOf(c).key = key /\ CallOf(c).layer = "L2"
     /\ CallOf(c).gen = isolate /\ now < CallOf(c).retAt + L1_TTL}

\* The getFromCache that follows in the isolate, within the TTL, is served by
\* L1 with no kv.get
NextReadIsLocal ==
  \A t \in Tasks :
    (StartsFacadeCall(t, "getFromCache")
       /\ PromotedHere(tasks'[t].calls[1].key) # {})
    => /\ tasks'[t].calls[1].layer = "L1"
       /\ tasks'[t].calls[1].st = "returned"
       /\ ~tasks'[t].calls[1].kvRead

\* C9: a getFromCache that misses L1 and hits KV stores the value in L1 with
\* L1_TTL before it returns, and the next getFromCache for the key in the same
\* isolate within that TTL is served by L1 with no KV read
C9_Promotion == [][PromotesKvHit /\ NextReadIsLocal]_vars

\* One call returned a KV hit and a later call for the key was served by L1
C9_Witness ==
  \E a \in FacadeCalls("get"), b \in FacadeCalls("get") :
    /\ a # b
    /\ CallOf(a).key = CallOf(b).key
    /\ CallOf(a).layer = "L2" /\ CallOf(b).layer = "L1"
    /\ CallOf(a).gen = CallOf(b).gen
    /\ CallOf(a).val = CallOf(b).val
    /\ CallOf(a).retAt < CallOf(b).retAt

\* setInCache writes L1 at once, and issues a kv.put exactly when it is given a
\* kvTtl; the call itself leaves KV as it is
SetWritesL1AndGatesKv ==
  \A t \in Tasks :
    StartsFacadeCall(t, "setInCache") =>
      LET call == tasks'[t].calls[1]
      IN /\ call.key \in DOMAIN l1'
         /\ l1'[call.key] = [value |-> call.value, expiresAt |-> now + L1_TTL]
         /\ (call.st = "put_pending") = NotNull(call.kvTtl)
         /\ (call.st = "returned") = IsNull(call.kvTtl)
         /\ kv' = kv

\* KV changes only by the kv.put of a setInCache that was given a kvTtl, and
\* then the key holds the value's text, without expiration for kvTtl = 0 and
\* expiring kvTtl seconds later for a positive kvTtl
KvChangesOnlyByGatedPut ==
  kv' # kv =>
    \E c \in FacadeCalls("set") :
      /\ CallOf(c).st = "put_pending"
      /\ tasks'[c[1]].calls[c[2]].st = "put_done"
      /\ NotNull(CallOf(c).kvTtl)
      /\ DOMAIN kv' = DOMAIN kv \cup {CallOf(c).key}
      /\ \A k \in DOMAIN kv \ {CallOf(c).key} : kv'[k] = kv[k]
      /\ kv'[CallOf(c).key].value = JsonStringify(CallOf(c).value)
      /\ kv'[CallOf(c).key].expiration =
           IF Val(CallOf(c).kvTtl) = 0 THEN Null ELSE Some(now + Val(CallOf(c).kvTtl))

\* A kv.get finds an entry exactly until its expiration, and one without
\* expiration always
KvEntryExpires ==
  \A c \in FacadeCalls("get") :
    (CallOf(c).st = "kv_pending" /\ tasks'[c[1]].calls[c[2]].st = "kv_got")
    => LET key == CallOf(c).key
           found == NotNull(tasks'[c[1]].calls[c[2]].kvRes)
       IN found = (key \in DOMAIN kv
                     /\ (IsNull(kv[key].expiration) \/ now < Val(kv[key].expiration)))

\* A setInCache that has returned wrote KV exactly if it was given a kvTtl
ReturnedSetWroteKvIffTtl ==
  \A c \in FacadeCalls("set") :
    CallOf(c).st = "returned" => (CallOf(c).kvWritten = NotNull(CallOf(c).kvTtl))

\* C10: setInCache always writes L1, and writes KV if and only if kvTtl is
\* given: without it KV is unchanged, with 0 the KV entry has no expiration,
\* with a positive value the entry expires that many seconds later
C10_WriteGating ==
  /\ [][SetWritesL1AndGatesKv /\ KvChangesOnlyByGatedPut /\ KvEntryExpires]_vars
  /\ []ReturnedSetWroteKvIffTtl

\* A setInCache without kvTtl has returned, the isolate was started anew, and a
\* getFromCache for the key has then missed both tiers
C10_Witness ==
  \E a \in FacadeCalls("set"), b \in FacadeCalls("get") :
    /\ CallOf(a).key = CallOf(b).key
    /\ IsNull(CallOf(a).kvTtl) /\ CallOf(a).st = "returned"
    /\ CallOf(a).gen = 0 /\ CallOf(b).gen = 1
    /\ CallOf(b).st = "returned" /\ CallOf(b).layer = "miss"
    /\ CallOf(a).key \notin DOMAIN kv

----------------------------------------------------------------------------
(* verifyApiKey: src/verify-api-key.ts *)

\* hashApiKey: SHA-256 of the key, taken to be free of collisions
hashApiKey(apiKey) == <<"sha256", apiKey>>

ApiKeyCacheKey(hashedKey) == <<"apikey", hashedKey>>

\* hasPermission for a permission "resource:action" given as <<resource, action>>
hasPermission(permissions, requiredPermission) ==
  /\ requiredPermission[1] \in DOMAIN permissions
  /\ requiredPermission[2] \in permissions[requiredPermission[1]]

\* SELECT ... FROM apikey a INNER JOIN member m ... WHERE a.key = ? LIMIT 1
SelectApiKey(table, hashedKey) ==
  IF hashedKey \in DOMAIN table THEN Some(table[hashedKey]) ELSE Null

\* The data cached for a key row
CachedApiKeyOf(row) ==
  [organizationId |-> row.organization_id, permissions |-> row.permissions,
   enabled |-> (row.enabled = 1), expiresAt |-> row.expires_at]

\* expiresAt < Date.now(): expiresAt is in milliseconds and the clock reads
\* whole seconds
BeforeNow(expiresAt, t) == (expiresAt \div 1000) < t

\* The checks without the one of the expiry
ValidateApiKey_NoExpiry(cachedData, requiredPermission, t) ==
  IF ~cachedData.enabled
    THEN [valid |-> FALSE, code |-> "DISABLED"]
    ELSE IF ~hasPermission(cachedData.permissions, requiredPermission)
           THEN [valid |-> FALSE, code |-> "FORBIDDEN"]
           ELSE [valid |-> TRUE, code |-> "OK",
                 organizationId |-> cachedData.organizationId]

\* The checks of verifyApiKey on the cached or fetched data
ValidateApiKey(cachedData, requiredPermission, t) ==
  IF ~cachedData.enabled
    THEN [valid |-> FALSE, code |-> "DISABLED"]
    ELSE IF NotNull(cachedData.expiresAt) /\ Val(cachedData.expiresAt) # 0
              /\ BeforeNow(Val(cachedData.expiresAt), t)
           THEN [valid |-> FALSE, code |-> "EXPIRED"]
           ELSE IF ~hasPermission(cachedData.permissions, requiredPermission)
                  THEN [valid |-> FALSE, code |-> "FORBIDDEN"]
                  ELSE [valid |-> TRUE, code |-> "OK",
                        organizationId |-> cachedData.organizationId]

\* verifyApiKey returns to its caller
VerifyApiKeyReturn(tk, result) ==
  [tk EXCEPT !.pc = IF tk.top = "handleRequest" THEN "hr_key" ELSE "done",
             !.keyResult = Some(result)]

\* verifyApiKey up to the await of getFromCache. The digest it awaits first
\* reads no state of the program.
VerifyApiKeyCall(tk, apiKey, requiredPermission, c, t, g) ==
  LET cacheKey == ApiKeyCacheKey(hashApiKey(apiKey))
  IN [task |-> With(tk, [pc |-> "vak_get", hashedKey |-> hashApiKey(apiKey),
                         requiredPermission |-> requiredPermission,
                         calls |-> <<GetFromCacheCall(cacheKey, c, t, g)>>,
                         keySt |-> "none", keyRow |-> Null, keyResult |-> Null]),
      l1 |-> MemoryCacheEvict(c, cacheKey, t)]

\* Mutant: a record from the cache is checked for enabled only
VerifyApiKeyAfterGet_TrustsCache(t) ==
  /\ tasks[t].pc = "vak_get"
  /\ tasks[t].calls[1].st = "returned"
  /\ LET tk == tasks[t]
         cachedData == tk.calls[1].val
     IN tasks' = [tasks EXCEPT ![t] =
          IF NotNull(cachedData)
            THEN VerifyApiKeyReturn(tk,
                   IF Val(cachedData).enabled
                     THEN [valid |-> TRUE, code |-> "OK",
                           organizationId |-> Val(cachedData).organizationId]
                     ELSE [valid |-> FALSE, code |-> "DISABLED"])
            ELSE [tk EXCEPT !.pc = "vak_d1", !.keySt = "pending"]]
  /\ UNCHANGED <<clock, l1, kv, d1>>

\* verifyApiKey after getFromCache: cached data is validated, a miss queries D1
VerifyApiKeyAfterGet(t) ==
  /\ tasks[t].pc = "vak_get"
  /\ tasks[t].calls[1].st = "returned"
  /\ LET tk == tasks[t]
         cachedData == tk.calls[1].val
     IN tasks' = [tasks EXCEPT ![t] =
          IF NotNull(cachedData)
            THEN VerifyApiKeyReturn(tk,
                   ValidateApiKey(Val(cachedData), tk.requiredPermission, now))
            ELSE [tk EXCEPT !.pc = "vak_d1", !.keySt = "pending"]]
  /\ UNCHANGED <<clock, l1, kv, d1>>

\* The key query is answered by D1
D1SelectApiKey(t) ==
  /\ tasks[t].pc = "vak_d1"
  /\ tasks[t].keySt = "pending"
  /\ tasks' = [tasks EXCEPT ![t].keySt = "ready",
                            ![t].keyRow = SelectApiKey(apikey, tasks[t].hashedKey)]
  /\ UNCHANGED <<clock, l1, kv, d1>>

\* Mutant: the fetched row is validated without being cached
VerifyApiKeyAfterD1_NoCache(t) ==
  /\ tasks[t].pc = "vak_d1"
  /\ tasks[t].keySt = "ready"
  /\ LET tk == tasks[t]
     IN tasks' = [tasks EXCEPT ![t] =
          IF IsNull(tk.keyRow)
            THEN VerifyApiKeyReturn(tk, [valid |-> FALSE, code |-> "INVALID_KEY"])
            ELSE VerifyApiKeyReturn(tk, ValidateApiKey(CachedApiKeyOf(Val(tk.keyRow)),
                                                       tk.requiredPermission, now))]
  /\ UNCHANGED <<clock, l1, kv, d1>>

\* Mutant: a key without a row is cached in L1 as a key that is not enabled
VerifyApiKeyAfterD1_CachesMiss(t) ==
  /\ tasks[t].pc = "vak_d1"
  /\ tasks[t].keySt = "ready"
  /\ LET tk == tasks[t]
         cacheKey == ApiKeyCacheKey(tk.hashedKey)
         cachedData == IF IsNull(tk.keyRow)
                         THEN [organizationId |-> "none", permissions |-> EmptyMap,
                               enabled |-> FALSE, expiresAt |-> Null]
                         ELSE CachedApiKeyOf(Val(tk.keyRow))
     IN /\ tasks' = [tasks EXCEPT ![t] =
             IF IsNull(tk.keyRow)
               THEN VerifyApiKeyReturn(tk, [valid |-> FALSE, code |-> "INVALID_KEY"])
               ELSE [tk EXCEPT !.pc = "vak_set",
                               !.calls = <<SetInCacheCall(cacheKey, cachedData,
                                                          Some(L2_TTL), isolate)>>]]
        /\ l1' = SetInCacheL1(l1, cacheKey, cachedData, now)
  /\ UNCHANGED <<clock, kv, d1>>

\* verifyApiKey after the query: no row is INVALID_KEY, a row is cached in both
\* tiers with L2_TTL
VerifyApiKeyAfterD1(t) ==
  /\ tasks[t].pc = "vak_d1"
  /\ tasks[t].keySt = "ready"
  /\ LET tk == tasks[t]
         cacheKey == ApiKeyCacheKey(tk.hashedKey)
     IN IF IsNull(tk.keyRow)
          THEN /\ tasks' = [tasks EXCEPT ![t] =
                              VerifyApiKeyReturn(tk, [valid |-> FALSE, code |-> "INVALID_KEY"])]
               /\ l1' = l1
          ELSE LET cachedData == CachedApiKeyOf(Val(tk.keyRow))
               IN /\ tasks' = [tasks EXCEPT ![t].pc = "vak_set",
                                 ![t].calls = <<SetInCacheCall(cacheKey, cachedData,
                                                               Some(L2_TTL), isolate)>>]
                  /\ l1' = SetInCacheL1(l1, cacheKey, cachedData, now)
  /\ UNCHANGED <<clock, kv, d1>>

\* verifyApiKey after setInCache: the fetched data is validated
VerifyApiKeyAfterSet(t) ==
  /\ tasks[t].pc = "vak_set"
  /\ tasks[t].calls[1].st = "returned"
  /\ LET tk == tasks[t]
     IN tasks' = [tasks EXCEPT ![t] =
          VerifyApiKeyReturn(tk,
            ValidateApiKey(tk.calls[1].value, tk.requiredPermission, now))]
  /\ UNCHANGED <<clock, l1, kv, d1>>

----------------------------------------------------------------------------
(* fetchPrompt: src/fetch-prompt.ts *)

\* A string whose characters matter is the sequence of its characters
DigitChars == <<"0", "1", "2", "3", "4", "5", "6", "7", "8", "9">>

IsDigit(ch) == \E i \in 1..10 : DigitChars[i] = ch

DigitValue(ch) == (CHOOSE i \in 1..10 : DigitChars[i] = ch) - 1

\* The parts of str between the separators sep
RECURSIVE SplitOn(_, _)
SplitOn(str, sep) ==
  IF \A i \in 1..Len(str) : str[i] # sep
    THEN <<str>>
    ELSE LET i == CHOOSE j \in 1..Len(str) :
                    str[j] = sep /\ \A k \in 1..(j - 1) : str[k] # sep
         IN <<SubSeq(str, 1, i - 1)>> \o SplitOn(SubSeq(str, i + 1, Len(str)), sep)

\* Number.parseInt(str, 10) of a string of digits
RECURSIVE parseInt(_)
parseInt(str) ==
  IF Len(str) = 0 THEN 0
  ELSE parseInt(SubSeq(str, 1, Len(str) - 1)) * 10 + DigitValue(str[Len(str)])

\* String(n) of a natural number
RECURSIVE NumberToString(_)
NumberToString(n) ==
  IF n < 10 THEN <<DigitChars[n + 1]>>
  ELSE NumberToString(n \div 10) \o <<DigitChars[(n % 10) + 1]>>

\* The string is truthy: given and not empty
Truthy(str) == NotNull(str) /\ Len(Val(str)) > 0

LatestTag == <<"l", "a", "t", "e", "s", "t">>
DraftTag == <<"d", "r", "a", "f", "t">>

LATEST_VERSION_TTL == L2_TTL

\* formatVersion: "draft" without a major, else major.minor.patch with 0 for a
\* missing minor or patch
formatVersion(major, minor, patch) ==
  IF IsNull(major) THEN DraftTag
  ELSE NumberToString(Val(major)) \o <<".">>
         \o NumberToString(IF IsNull(minor) THEN 0 ELSE Val(minor)) \o <<".">>
         \o NumberToString(IF IsNull(patch) THEN 0 ELSE Val(patch))

\* parseVersion: /^(\d+)\.(\d+)\.(\d+)$/, the three groups read as decimals
parseVersion(version) ==
  LET parts == SplitOn(version, ".")
  IN IF /\ Len(parts) = 3
        /\ \A i \in 1..3 : Len(parts[i]) > 0 /\ \A j \in 1..Len(parts[i]) : IsDigit(parts[i][j])
       THEN Some([major |-> parseInt(parts[1]), minor |-> parseInt(parts[2]),
                  patch |-> parseInt(parts[3])])
       ELSE Null

PromptCacheKey(promptId) == <<"prompt", promptId>>

VersionCacheKey(promptId, version) ==
  <<"version", promptId, IF Truthy(version) THEN Val(version) ELSE LatestTag>>

\* The query without the filter on deleted_at
SelectPrompt_WithDeleted(table, promptId) ==
  IF promptId \in DOMAIN table THEN Some(table[promptId]) ELSE Null

\* SELECT ... FROM prompt WHERE id = ? AND deleted_at IS NULL
SelectPrompt(table, promptId) ==
  IF promptId \in DOMAIN table /\ IsNull(table[promptId].deleted_at)
    THEN Some(table[promptId]) ELSE Null

\* A column that is NULL sorts below every number
ColumnOrder(col) == IF IsNull(col) THEN -1 ELSE Val(col)

\* Row a comes before row b under ORDER BY major DESC, minor DESC, patch DESC,
\* or ties with it
OrderedBefore(a, b) ==
  \/ ColumnOrder(a.major) > ColumnOrder(b.major)
  \/ /\ ColumnOrder(a.major) = ColumnOrder(b.major)
     /\ \/ ColumnOrder(a.minor) > ColumnOrder(b.minor)
        \/ /\ ColumnOrder(a.minor) = ColumnOrder(b.minor)
           /\ ColumnOrder(a.patch) >= ColumnOrder(b.patch)

\* Mutant: the query does not ask for published_at IS NOT NULL
SelectVersion_WithDrafts(table, promptId, parsedVersion) ==
  LET published == {r \in table : r.prompt_id = promptId}
      rows == IF NotNull(parsedVersion)
                THEN {r \in published :
                        /\ r.major = Some(Val(parsedVersion).major)
                        /\ r.minor = Some(Val(parsedVersion).minor)
                        /\ r.patch = Some(Val(parsedVersion).patch)}
                ELSE {r \in published : \A q \in published : OrderedBefore(r, q)}
  IN IF rows = {} THEN {Null} ELSE {Some(r) : r \in rows}

\* buildVersionQuery(...).first(): the rows the query may return as its first
\* row (Null when it has no row)
SelectVersion(table, promptId, parsedVersion) ==
  LET published == {r \in table : r.prompt_id = promptId /\ NotNull(r.published_at)}
      rows == IF NotNull(parsedVersion)
                THEN {r \in published :
                        /\ r.major = Some(Val(parsedVersion).major)
                        /\ r.minor = Some(Val(parsedVersion).minor)
                        /\ r.patch = Some(Val(parsedVersion).patch)}
                ELSE {r \in published : \A q \in published : OrderedBefore(r, q)}
  IN IF rows = {} THEN {Null} ELSE {Some(r) : r \in rows}

CachedPromptOf(row) ==
  [id |-> row.id, organizationId |-> row.organization_id, name |-> row.name]

CachedVersionOf(row) ==
  [version |-> formatVersion(row.major, row.minor, row.patch),
   systemMessage |-> row.system_message]

\* fetchPrompt returns to its caller
FetchPromptReturn(tk, result) ==
  [tk EXCEPT !.pc = IF tk.top = "handleRequest" THEN "hr_prompt" ELSE "done",
             !.promptResult = Some(result)]

\* Mutant: the organization of the caller is not compared
FetchPromptFinish_NoOrgCheck(tk, promptData, versionData) ==
  FetchPromptReturn(tk,
    IF IsNull(versionData)
      THEN [ok |-> FALSE, code |-> "VERSION_NOT_FOUND"]
      ELSE [ok |-> TRUE, code |-> "OK", promptId |-> promptData.id,
            promptName |-> promptData.name,
            version |-> Val(versionData).version,
            systemMessage |-> Val(versionData).systemMessage])

\* The end of fetchPrompt: the organization check, then the version check
FetchPromptFinish(tk, promptData, versionData) ==
  FetchPromptReturn(tk,
    IF promptData.organizationId # tk.organizationId
      THEN [ok |-> FALSE, code |-> "NOT_FOUND"]
      ELSE IF IsNull(versionData)
             THEN [ok |-> FALSE, code |-> "VERSION_NOT_FOUND"]
             ELSE [ok |-> TRUE, code |-> "OK", promptId |-> promptData.id,
                   promptName |-> promptData.name,
                   version |-> Val(versionData).version,
                   systemMessage |-> Val(versionData).systemMessage])

\* fetchPrompt up to the await of the two getFromCache calls; a version that
\* does not parse returns BAD_REQUEST before any cache read
FetchPromptCall(tk, promptId, organizationId, version, c, t, g) ==
  LET parsed == IF Truthy(version) THEN parseVersion(Val(version)) ELSE Null
      promptKey == PromptCacheKey(promptId)
      versionKey == VersionCacheKey(promptId, version)
      c1 == MemoryCacheEvict(c, promptKey, t)
      loc == [pc |-> "fp_get", promptId |-> promptId,
              organizationId |-> organizationId, version |-> version,
              parsedVersion |-> parsed,
              calls |-> <<GetFromCacheCall(promptKey, c, t, g),
                          GetFromCacheCall(versionKey, c1, t, g)>>,
              promptSt |-> "none", promptRow |-> Null,
              versionSt |-> "none", versionRow |-> Null,
              promptData |-> Null, promptResult |-> Null]
  IN IF Truthy(version) /\ IsNull(parsed)
       THEN [task |-> FetchPromptReturn(With(tk, [loc EXCEPT !.calls = <<>>]),
                                        [ok |-> FALSE, code |-> "BAD_REQUEST"]),
             l1 |-> c]
       ELSE [task |-> With(tk, loc), l1 |-> MemoryCacheEvict(c1, versionKey, t)]

\* fetchPrompt after both getFromCache calls: with both cached no query, with
\* the prompt cached the version query, else both queries
FetchPromptAfterGet(t) ==
  /\ tasks[t].pc = "fp_get"
  /\ \A i \in 1..2 : tasks[t].calls[i].st = "returned"
  /\ LET tk == tasks[t]
         cachedPrompt == tk.calls[1].val
         cachedVersion == tk.calls[2].val
     IN tasks' = [tasks EXCEPT ![t] =
          IF NotNull(cachedPrompt) /\ NotNull(cachedVersion)
            THEN FetchPromptFinish(tk, Val(cachedPrompt), cachedVersion)
            ELSE IF NotNull(cachedPrompt)
                   THEN [tk EXCEPT !.pc = "fp_d1", !.promptData = cachedPrompt,
                                   !.versionSt = "pending"]
                   ELSE [tk EXCEPT !.pc = "fp_d1", !.promptSt = "pending",
                                   !.versionSt = "pending"]]
  /\ UNCHANGED <<clock, l1, kv, d1>>

\* The prompt query is answered by D1
D1SelectPrompt(t) ==
  /\ tasks[t].pc = "fp_d1"
  /\ tasks[t].promptSt = "pending"
  /\ tasks' = [tasks EXCEPT ![t].promptSt = "ready",
                            ![t].promptRow = SelectPrompt(prompt, tasks[t].promptId)]
  /\ UNCHANGED <<clock, l1, kv, d1>>

\* The version query is answered by D1
D1SelectVersion(t) ==
  /\ tasks[t].pc = "fp_d1"
  /\ tasks[t].versionSt = "pending"
  /\ \E row \in SelectVersion(prompt_version, tasks[t].promptId, tasks[t].parsedVersion) :
       tasks' = [tasks EXCEPT ![t].versionSt = "ready", ![t].versionRow = row]
  /\ UNCHANGED <<clock, l1, kv, d1>>

\* Mutant: every version entry is given the TTL of the latest pointer
VersionKvTtl_AlwaysLatest(version) == LATEST_VERSION_TTL

\* const kvTtl = version ? 0 : LATEST_VERSION_TTL
VersionKvTtl(version) == IF Truthy(version) THEN 0 ELSE LATEST_VERSION_TTL

\* fetchPrompt after its queries: what was fetched is cached (a specific
\* version without expiry in KV, the latest one with LATEST_VERSION_TTL), a
\* missing prompt is NOT_FOUND
FetchPromptAfterD1(t) ==
  /\ tasks[t].pc = "fp_d1"
  /\ tasks[t].promptSt \in {"none", "ready"}
  /\ tasks[t].versionSt = "ready"
  /\ LET tk == tasks[t]
         promptKey == PromptCacheKey(tk.promptId)
         versionKey == VersionCacheKey(tk.promptId, tk.version)
         kvTtl == VersionKvTtl(tk.version)
         versionData == IF NotNull(tk.versionRow)
                          THEN Some(CachedVersionOf(Val(tk.versionRow))) ELSE Null
         setVersion == SetInCacheCall(versionKey, Val(versionData), Some(kvTtl), isolate)
     IN IF tk.promptSt = "none"
          THEN IF NotNull(versionData)
                 THEN /\ tasks' = [tasks EXCEPT ![t].pc = "fp_set",
                                                ![t].calls = <<setVersion>>]
                      /\ l1' = SetInCacheL1(l1, versionKey, Val(versionData), now)
                 ELSE /\ tasks' = [tasks EXCEPT ![t] =
                                     FetchPromptFinish(tk, Val(tk.promptData), Null)]
                      /\ l1' = l1
          ELSE IF IsNull(tk.promptRow)
                 THEN /\ tasks' = [tasks EXCEPT ![t] =
                                     FetchPromptReturn(tk, [ok |-> FALSE, code |-> "NOT_FOUND"])]
                      /\ l1' = l1
                 ELSE LET promptData == CachedPromptOf(Val(tk.promptRow))
                          setPrompt == SetInCacheCall(promptKey, promptData,
                                                      Some(L2_TTL), isolate)
                          c1 == SetInCacheL1(l1, promptKey, promptData, now)
                      IN IF NotNull(versionData)
                           THEN /\ tasks' = [tasks EXCEPT ![t].pc = "fp_set",
                                                ![t].promptData = Some(promptData),
                                                ![t].calls = <<setPrompt, setVersion>>]
                                /\ l1' = SetInCacheL1(c1, versionKey, Val(versionData), now)
                           ELSE /\ tasks' = [tasks EXCEPT ![t].pc = "fp_set",
                                                ![t].promptData = Some(promptData),
                                                ![t].calls = <<setPrompt>>]
                                /\ l1' = c1
  /\ UNCHANGED <<clock, kv, d1>>

\* fetchPrompt after its setInCache calls
FetchPromptAfterSet(t) ==
  /\ tasks[t].pc = "fp_set"
  /\ \A i \in DOMAIN tasks[t].calls : tasks[t].calls[i].st = "returned"
  /\ LET tk == tasks[t]
         versionData == IF NotNull(tk.versionRow)
                          THEN Some(CachedVersionOf(Val(tk.versionRow))) ELSE Null
     IN tasks' = [tasks EXCEPT ![t] =
                    FetchPromptFinish(tk, Val(tk.promptData), versionData)]
  /\ UNCHANGED <<clock, l1, kv, d1>>

----------------------------------------------------------------------------
(* handleRequest: src/handler.ts *)

\* jsonResponse / errorResponse: the status, the code of the body, and the
\* rate-limit headers when there are any
Response(status, code, rateLimit) ==
  [status |-> status, code |-> code, rateLimit |-> rateLimit]

\* rateLimitHeaders(usage)
rateLimitHeaders(usageStatus, t) ==
  Some([limit |-> usageStatus.limit, remaining |-> usageStatus.remaining,
        reset |-> getNextMonthResetUnix(t)])

\* The request is answered
Answer(tk, response) == [tk EXCEPT !.pc = "done", !.response = Some(response)]

\* Mutant: the Authorization header is checked before the route
HandleRequestCall_AuthFirst(tk0, req, c, t, g) ==
  LET tk == With(tk0, [top |-> "handleRequest", pc |-> "hr_start", req |-> req,
                       response |-> Null, scheduled |-> 0])
  IN IF req.method = "OPTIONS"
       THEN [task |-> Answer(tk, Response(204, "NONE", Null)), l1 |-> c]
     ELSE IF req.method # "GET"
       THEN [task |-> Answer(tk, Response(405, "METHOD_NOT_ALLOWED", Null)), l1 |-> c]
     ELSE IF IsNull(req.authorization)
       THEN [task |-> Answer(tk, Response(401, "UNAUTHORIZED", Null)), l1 |-> c]
     ELSE IF Val(req.authorization)[1] # "Bearer"
       THEN [task |-> Answer(tk, Response(401, "UNAUTHORIZED", Null)), l1 |-> c]
     ELSE IF IsNull(req.promptId)
       THEN [task |-> Answer(tk, Response(404, "NOT_FOUND", Null)), l1 |-> c]
     ELSE VerifyApiKeyCall(tk, Val(req.authorization)[2], <<"prompt", "read">>, c, t, g)

\* handleRequest up to its first await: preflight, method, route and
\* Authorization header are checked, then verifyApiKey is called. A path that
\* matches /^\/prompts\/([^/]+)$/ has a prompt id that is not empty.
HandleRequestCall(tk0, req, c, t, g) ==
  LET tk == With(tk0, [top |-> "handleRequest", pc |-> "hr_start", req |-> req,
                       response |-> Null, scheduled |-> 0])
  IN IF req.method = "OPTIONS"
       THEN [task |-> Answer(tk, Response(204, "NONE", Null)), l1 |-> c]
     ELSE IF req.method # "GET"
       THEN [task |-> Answer(tk, Response(405, "METHOD_NOT_ALLOWED", Null)), l1 |-> c]
     ELSE IF IsNull(req.promptId)
       THEN [task |-> Answer(tk, Response(404, "NOT_FOUND", Null)), l1 |-> c]
     ELSE IF IsNull(req.authorization)
       THEN [task |-> Answer(tk, Response(401, "UNAUTHORIZED", Null)), l1 |-> c]
     ELSE IF Val(req.authorization)[1] # "Bearer"
       THEN [task |-> Answer(tk, Response(401, "UNAUTHORIZED", Null)), l1 |-> c]
     ELSE VerifyApiKeyCall(tk, Val(req.authorization)[2], <<"prompt", "read">>, c, t, g)

\* statusMap of the key codes
KeyStatus(code) == IF code = "FORBIDDEN" THEN 403 ELSE 401

\* handleRequest after verifyApiKey: a key that is not valid is answered 401
\* or 403, a valid one goes on to checkUsageLimit
HandleRequestAfterKey(t) ==
  /\ tasks[t].pc = "hr_key"
  /\ LET tk == tasks[t]
         keyResult == Val(tk.keyResult)
     IN IF ~keyResult.valid
          THEN /\ tasks' = [tasks EXCEPT ![t] =
                              Answer(tk, Response(KeyStatus(keyResult.code), keyResult.code, Null))]
               /\ l1' = l1
          ELSE LET r == CheckUsageLimitCall(tk, keyResult.organizationId, l1, now)
               IN /\ tasks' = [tasks EXCEPT ![t] = r.task]
                  /\ l1' = r.l1
  /\ UNCHANGED <<clock, kv, d1>>

\* Mutant: the 429 is sent only from two calls over the limit on
HandleRequestAfterUsage_OneOver(t) ==
  /\ tasks[t].pc = "hr_usage"
  /\ LET tk == tasks[t]
         usageStatus == Val(tk.usageStatus)
     IN IF ~usageStatus.allowed /\ usageStatus.used > Val(usageStatus.limit)
          THEN /\ tasks' = [tasks EXCEPT ![t] =
                              Answer(tk, Response(429, "USAGE_LIMIT_EXCEEDED",
                                                  rateLimitHeaders(usageStatus, now)))]
               /\ l1' = l1
          ELSE LET r == FetchPromptCall(tk, Val(tk.req.promptId),
                                        Val(tk.keyResult).organizationId,
                                        tk.req.version, l1, now, isolate)
               IN /\ tasks' = [tasks EXCEPT ![t] = r.task]
                  /\ l1' = r.l1
  /\ UNCHANGED <<clock, kv, d1>>

\* handleRequest after checkUsageLimit: 429 when not allowed, else fetchPrompt
HandleRequestAfterUsage(t) ==
  /\ tasks[t].pc = "hr_usage"
  /\ LET tk == tasks[t]
         usageStatus == Val(tk.usageStatus)
     IN IF ~usageStatus.allowed
          THEN /\ tasks' = [tasks EXCEPT ![t] =
                              Answer(tk, Response(429, "USAGE_LIMIT_EXCEEDED",
                                                  rateLimitHeaders(usageStatus, now)))]
               /\ l1' = l1
          ELSE LET r == FetchPromptCall(tk, Val(tk.req.promptId),
                                        Val(tk.keyResult).organizationId,
                                        tk.req.version, l1, now, isolate)
               IN /\ tasks' = [tasks EXCEPT ![t] = r.task]
                  /\ l1' = r.l1
  /\ UNCHANGED <<clock, kv, d1>>

\* statusMap of the fetchPrompt codes (?? 500)
PromptStatus(code) ==
  IF code \in {"NOT_FOUND", "VERSION_NOT_FOUND"} THEN 404
  ELSE IF code = "BAD_REQUEST" THEN 400 ELSE 500

\* Mutant: the increment is handed to waitUntil before the outcome of
\* fetchPrompt is looked at
HandleRequestAfterPrompt_CountsErrors(t) ==
  /\ tasks[t].pc = "hr_prompt"
  /\ LET tk == tasks[t]
         promptResult == Val(tk.promptResult)
         counted == IncrementUsageCall([tk EXCEPT !.scheduled = @ + 1],
                                       Val(tk.keyResult).organizationId, now)
     IN IF ~promptResult.ok
          THEN tasks' = [tasks EXCEPT ![t] =
                 [counted EXCEPT !.response =
                    Some(Response(PromptStatus(promptResult.code), promptResult.code, Null))]]
          ELSE tasks' = [tasks EXCEPT ![t] =
                 [counted EXCEPT !.response =
                    Some(Response(200, "OK", rateLimitHeaders(Val(tk.usageStatus), now)))]]
  /\ UNCHANGED <<clock, l1, kv, d1>>

\* handleRequest after fetchPrompt: an error is answered 404 or 400; else
\* incrementUsage is called and handed to ctx.waitUntil, and the prompt is
\* answered 200 with the rate-limit headers
HandleRequestAfterPrompt(t) ==
  /\ tasks[t].pc = "hr_prompt"
  /\ LET tk == tasks[t]
         promptResult == Val(tk.promptResult)
     IN IF ~promptResult.ok
          THEN tasks' = [tasks EXCEPT ![t] =
                 Answer(tk, Response(PromptStatus(promptResult.code), promptResult.code, Null))]
          ELSE tasks' = [tasks EXCEPT ![t] =
                 [IncrementUsageCall([tk EXCEPT !.scheduled = @ + 1],
                                     Val(tk.keyResult).organizationId, now)
                    EXCEPT !.response =
                      Some(Response(200, "OK", rateLimitHeaders(Val(tk.usageStatus), now)))]]
  /\ UNCHANGED <<clock, l1, kv, d1>>

----------------------------------------------------------------------------
(* The worker under requests *)

Str_1_0_0 == <<"1", ".", "0", ".", "0">>
Str_2_0_0 == <<"2", ".", "0", ".", "0">>
Str_1_0 == <<"1", ".", "0">>

\* Keys: of the free org o1, of the paid org o2, a disabled one, an expired
\* one, one without the read permission; "k_none" is no key of the table
ApiKeyRows ==
  LET row(org, perms, enabled, expires) ==
        [organization_id |-> org, permissions |-> perms, enabled |-> enabled,
         expires_at |-> expires]
  IN (hashApiKey("k_good") :> row("o1", [prompt |-> {"read"}], 1, Null))
     @@ (hashApiKey("k_ent") :> row("o2", [prompt |-> {"read"}], 1, Null))
     @@ (hashApiKey("k_dis") :> row("o1", [prompt |-> {"read"}], 0, Null))
     @@ (hashApiKey("k_exp") :> row("o1", [prompt |-> {"read"}], 1, Some(1)))
     @@ (hashApiKey("k_noperm") :> row("o1", [prompt |-> {"write"}], 1, Null))

\* p1 and p3 of o1, p2 of o2
PromptRows ==
  [id \in {"p1", "p2", "p3"} |->
     [id |-> id, organization_id |-> IF id = "p2" THEN "o2" ELSE "o1",
      name |-> "name", deleted_at |-> Null]]

\* p1 has 1.0.0 and 1.1.0 published and a draft; p2 has 1.0.0 published; p3
\* has nothing published
PromptVersionRows ==
  {[prompt_id |-> "p1", major |-> Some(1), minor |-> Some(0), patch |-> Some(0),
    system_message |-> "s100", published_at |-> Some(1)],
   [prompt_id |-> "p1", major |-> Some(1), minor |-> Some(1), patch |-> Some(0),
    system_message |-> "s110", published_at |-> Some(2)],
   [prompt_id |-> "p1", major |-> Null, minor |-> Null, patch |-> Null,
    system_message |-> "sdraft", published_at |-> Null],
   [prompt_id |-> "p2", major |-> Some(1), minor |-> Some(0), patch |-> Some(0),
    system_message |-> "s200", published_at |-> Some(1)],
   [prompt_id |-> "p3", major |-> Some(1), minor |-> Some(0), patch |-> Some(0),
    system_message |-> "s300", published_at |-> Null]}

Request(method, promptId, authorization, version) ==
  [method |-> method, promptId |-> promptId, authorization |-> authorization,
   version |-> version]

Bearer(apiKey) == Some(<<"Bearer", apiKey>>)

\* The requests: those refused before the key is looked up, those with a key
\* that is refused, and those of a valid key: for a version of p1 (the
\* latest, a published one, one that does not exist, one that is malformed),
\* for the prompt of another org, for a prompt without a published version and
\* for one that does not exist
Requests ==
  {Request(m, Some("p1"), Bearer("k_good"), Null) : m \in {"OPTIONS", "POST"}}
  \cup {Request("GET", Null, Bearer("k_good"), Null)}
  \cup {Request("GET", Some("p1"), a, Null) :
          a \in {Null, Some(<<"Basic", "k_good">>), Bearer("k_none"),
                 Bearer("k_dis"), Bearer("k_exp"), Bearer("k_noperm")}}
  \cup {Request("GET", Some("p1"), Bearer("k_good"), v) :
          v \in {Null, Some(Str_1_0_0), Some(Str_2_0_0), Some(Str_1_0)}}
  \cup {Request("GET", Some(p), Bearer("k_good"), Null) : p \in {"p2", "p3", "p9"}}
  \cup {Request("GET", Some(p), Bearer("k_ent"), Null) : p \in {"p1", "p2"}}

\* The requests that are not answered yet
InFlight ==
  {t \in Tasks : tasks[t].top = "handleRequest" /\ IsNull(tasks[t].response)}

\* A request arrives
ReceiveRequest(t) ==
  /\ CanStart(t)
  /\ Cardinality(InFlight) < MaxInFlight
  /\ \E req \in Requests :
       LET r == HandleRequestCall(tasks[t], req, l1, now, isolate)
       IN /\ tasks' = [tasks EXCEPT ![t] = r.task]
          /\ l1' = r.l1
  /\ UNCHANGED <<clock, kv, d1>>

\* Time passes between requests: a request is answered within one reading of
\* the clock, its background work may go on after it
TickIdle ==
  /\ InFlight = {}
  /\ Advance(TickLen, MaxElapsed)

\* o2 is on the enterprise plan
EnterpriseRows == [o \in {"o2"} |-> [plan |-> "enterprise", status |-> "active"]]

Init ==
  /\ epoch \in StartTimes
  /\ now = epoch
  /\ isolate = 0
  /\ l1 = EmptyMap
  /\ kv = EmptyMap
  /\ apikey = ApiKeyRows
  /\ prompt = PromptRows
  /\ prompt_version = PromptVersionRows
  /\ subscription = EnterpriseRows
  /\ usage \in InitUsageTables(subscription, epoch)
  /\ usage0 = usage
  /\ tasks = [t \in Tasks |-> IdleTask]

Next ==
  \/ \E t \in Tasks : ReceiveRequest(t)
  \/ \E t \in Tasks, i \in 1..2 : KvGet(t, i)
  \/ \E t \in Tasks, i \in 1..2 : GetFromCacheResume(t, i)
  \/ \E t \in Tasks, i \in 1..2 : KvPut(t, i)
  \/ \E t \in Tasks, i \in 1..2 : SetInCacheResume(t, i)
  \/ \E t \in Tasks : VerifyApiKeyAfterGet(t)
  \/ \E t \in Tasks : D1SelectApiKey(t)
  \/ \E t \in Tasks : VerifyApiKeyAfterD1(t)
  \/ \E t \in Tasks : VerifyApiKeyAfterSet(t)
  \/ \E t \in Tasks : HandleRequestAfterKey(t)
  \/ \E t \in Tasks : D1SelectSubscription(t)
  \/ \E t \in Tasks : GetPlanInfoResume(t)
  \/ \E t \in Tasks : D1SelectCount(t)
  \/ \E t \in Tasks : CheckUsageLimitResume(t)
  \/ \E t \in Tasks : HandleRequestAfterUsage(t)
  \/ \E t \in Tasks : FetchPromptAfterGet(t)
  \/ \E t \in Tasks : D1SelectPrompt(t)
  \/ \E t \in Tasks : D1SelectVersion(t)
  \/ \E t \in Tasks : FetchPromptAfterD1(t)
  \/ \E t \in Tasks : FetchPromptAfterSet(t)
  \/ \E t \in Tasks : HandleRequestAfterPrompt(t)
  \/ \E t \in Tasks : D1Batch(t)
  \/ \E t \in Tasks : IncrementUsageResume(t)
  \/ TickIdle
  \/ IsolateRestart

Spec == Init /\ [][Next]_vars

----------------------------------------------------------------------------
(* Claims about the worker *)

\* The requests received so far
Handled == {t \in Tasks : tasks[t].top = "handleRequest"}

\* The requests answered so far
Answered == {t \in Handled : NotNull(tasks[t].response)}

\* The requests for which checkUsageLimit has returned
UsageChecked ==
  {t \in Handled : "usageStatus" \in DOMAIN tasks[t] /\ NotNull(tasks[t].usageStatus)}

\* C3: for an org whose plan has no limit (limit = null), checkUsageLimit
\* reports allowed = true and remaining = null whatever the count is, and the
\* request is not answered 429
C3_NullLimitIsUnlimited ==
  \A t \in UsageChecked :
    IsNull(Val(tasks[t].planInfo).limit) =>
      /\ Val(tasks[t].usageStatus).allowed
      /\ Val(tasks[t].usageStatus).remaining = Null
      /\ Val(tasks[t].usageStatus).limit = Null
      /\ (t \in Answered => Val(tasks[t].response).status # 429)

\* A request of an org without limit was served with a count that is no less
\* than the greatest finite limit
C3_Witness ==
  \E t \in UsageChecked \cap Answered :
    /\ IsNull(Val(tasks[t].planInfo).limit)
    /\ Val(tasks[t].usageStatus).used >= PRO_LIMIT
    /\ Val(tasks[t].usageStatus).allowed
    /\ Val(tasks[t].response).status = 200

\* An increment is handed to waitUntil at most once, with the answer and only
\* with the answer 200, for the org of the key
ScheduledIffServed ==
  \A t \in Handled :
    /\ tasks[t].scheduled \in {0, 1}
    /\ (t \notin Answered => tasks[t].scheduled = 0)
    /\ (t \in Answered =>
          ((tasks[t].scheduled = 1) <=> (Val(tasks[t].response).status = 200)))
    /\ (t \in Answered => Val(tasks[t].response).status \in
                            {200, 204, 400, 401, 403, 404, 405, 429})
    /\ (tasks[t].scheduled = 1 <=>
          ("incOrg" \in DOMAIN tasks[t] /\ tasks[t].pc \in {"inc_wait", "done"}))
    /\ (tasks[t].scheduled = 1 =>
          tasks[t].incOrg = Val(tasks[t].keyResult).organizationId)

\* Once a request is answered, nothing more is scheduled for it and its answer
\* stays as it is
AnsweredIsFinal ==
  \A t \in Answered :
    /\ tasks'[t].scheduled = tasks[t].scheduled
    /\ tasks'[t].response = tasks[t].response

\* C5: handleRequest schedules incrementUsage for a request if and only if the
\* request is answered 200: never for 400, 401, 403, 404, 405 or 429, and at
\* most once per request
C5_IncrementIffServed == []ScheduledIffServed /\ [][AnsweredIsFinal]_vars

\* One request was answered 200 with its increment scheduled, another one was
\* refused with 429 and nothing scheduled
C5_Witness ==
  \E t \in Answered, u \in Answered :
    /\ Val(tasks[t].response).status = 200 /\ tasks[t].scheduled = 1
    /\ Val(tasks[u].response).status = 429 /\ tasks[u].scheduled = 0

----------------------------------------------------------------------------
(* Faults of the Shared Tier *)

\* A rejected getFromCache or setInCache rejects the call that awaits it:
\* neither the facade nor verifyApiKey, fetchPrompt or handleRequest catches
RejectAwaiting(tk) ==
  IF tk.top \in {"getFromCache", "setInCache"}
    THEN [tk EXCEPT !.pc = "done"]
    ELSE IF tk.pc \in {"vak_get", "vak_set", "fp_get", "fp_set"}
           THEN [tk EXCEPT !.pc = "threw"]
           ELSE tk

\* KV fails the kv.get of call i of task t (a network fault, or text that is
\* not JSON)
KvGetFault(t, i) ==
  /\ "calls" \in DOMAIN tasks[t]
  /\ i \in DOMAIN tasks[t].calls
  /\ tasks[t].calls[i].st = "kv_pending"
  /\ tasks' = [tasks EXCEPT ![t].calls[i].st = "kv_failed",
                            ![t].calls[i].kvRead = TRUE]
  /\ UNCHANGED <<clock, l1, kv, d1>>

\* getFromCache after a kv.get that failed: the await throws, and nothing in
\* getFromCache catches
GetFromCacheThrow(t, i) ==
  /\ "calls" \in DOMAIN tasks[t]
  /\ i \in DOMAIN tasks[t].calls
  /\ tasks[t].calls[i].st = "kv_failed"
  /\ tasks' = [tasks EXCEPT ![t] = RejectAwaiting(
                 [tasks[t] EXCEPT !.calls[i].st = "rejected",
                                  !.calls[i].retAt = now])]
  /\ UNCHANGED <<clock, l1, kv, d1>>

\* KV fails the kv.put of call i of task t; nothing is stored
KvPutFault(t, i) ==
  /\ "calls" \in DOMAIN tasks[t]
  /\ i \in DOMAIN tasks[t].calls
  /\ tasks[t].calls[i].st = "put_pending"
  /\ tasks' = [tasks EXCEPT ![t].calls[i].st = "put_failed"]
  /\ UNCHANGED <<clock, l1, kv, d1>>

\* setInCache after a kv.put that failed: the await throws, and nothing in
\* setInCache catches
SetInCacheThrow(t, i) ==
  /\ "calls" \in DOMAIN tasks[t]
  /\ i \in DOMAIN tasks[t].calls
  /\ tasks[t].calls[i].st = "put_failed"
  /\ tasks' = [tasks EXCEPT ![t] = RejectAwaiting(
                 [tasks[t] EXCEPT !.calls[i].st = "rejected"])]
  /\ UNCHANGED <<clock, l1, kv, d1>>

\* Mutant: what handleRequest throws is answered like a prompt that is not found
FetchCatch_AsNotFound(t) ==
  /\ tasks[t].top = "handleRequest"
  /\ tasks[t].pc = "threw"
  /\ tasks' = [tasks EXCEPT ![t] = Answer(tasks[t], Response(404, "NOT_FOUND", Null))]
  /\ UNCHANGED <<clock, l1, kv, d1>>

\* fetch of index.ts: what handleRequest throws is caught and answered 500
FetchCatch(t) ==
  /\ tasks[t].top = "handleRequest"
  /\ tasks[t].pc = "threw"
  /\ tasks' = [tasks EXCEPT ![t] = Answer(tasks[t], Response(500, "INTERNAL_ERROR", Null))]
  /\ UNCHANGED <<clock, l1, kv, d1>>

\* Requests of a valid key for p1: its latest version and a published one
FaultRequests ==
  {Request("GET", Some("p1"), Bearer("k_good"), v) : v \in {Null, Some(Str_1_0_0)}}

ReceiveFaultRequest(t) ==
  /\ CanStart(t)
  /\ Cardinality(InFlight) < MaxInFlight
  /\ \E req \in FaultRequests :
       LET r == HandleRequestCall(tasks[t], req, l1, now, isolate)
       IN /\ tasks' = [tasks EXCEPT ![t] = r.task]
          /\ l1' = r.l1
  /\ UNCHANGED <<clock, kv, d1>>

InitFault ==
  /\ epoch \in StartTimes
  /\ now = epoch
  /\ isolate = 0
  /\ l1 = EmptyMap
  /\ kv = EmptyMap
  /\ apikey = ApiKeyRows
  /\ prompt = PromptRows
  /\ prompt_version = PromptVersionRows
  /\ subscription = EnterpriseRows
  /\ usage = EmptyMap
  /\ usage0 = usage
  /\ tasks = [t \in Tasks |-> IdleTask]

NextFault ==
  \/ \E t \in Tasks : ReceiveFaultRequest(t)
  \/ \E t \in Tasks, i \in 1..2 : KvGet(t, i)
  \/ \E t \in Tasks, i \in 1..2 : KvGetFault(t, i)
  \/ \E t \in Tasks, i \in 1..2 : GetFromCacheResume(t, i)
  \/ \E t \in Tasks, i \in 1..2 : GetFromCacheThrow(t, i)
  \/ \E t \in Tasks, i \in 1..2 : KvPut(t, i)
  \/ \E t \in Tasks, i \in 1..2 : KvPutFault(t, i)
  \/ \E t \in Tasks, i \in 1..2 : SetInCacheResume(t, i)
  \/ \E t \in Tasks, i \in 1..2 : SetInCacheThrow(t, i)
  \/ \E t \in Tasks : FetchCatch(t)
  \/ \E t \in Tasks : VerifyApiKeyAfterGet(t)
  \/ \E t \in Tasks : D1SelectApiKey(t)
  \/ \E t \in Tasks : VerifyApiKeyAfterD1(t)
  \/ \E t \in Tasks : VerifyApiKeyAfterSet(t)
  \/ \E t \in Tasks : HandleRequestAfterKey(t)
  \/ \E t \in Tasks : D1SelectSubscription(t)
  \/ \E t \in Tasks : GetPlanInfoResume(t)
  \/ \E t \in Tasks : D1SelectCount(t)
  \/ \E t \in Tasks : CheckUsageLimitResume(t)
  \/ \E t \in Tasks : HandleRequestAfterUsage(t)
  \/ \E t \in Tasks : FetchPromptAfterGet(t)
  \/ \E t \in Tasks : D1SelectPrompt(t)
  \/ \E t \in Tasks : D1SelectVersion(t)
  \/ \E t \in Tasks : FetchPromptAfterD1(t)
  \/ \E t \in Tasks : FetchPromptAfterSet(t)
  \/ \E t \in Tasks : HandleRequestAfterPrompt(t)
  \/ \E t \in Tasks : D1Batch(t)
  \/ \E t \in Tasks : IncrementUsageResume(t)

SpecFault == InitFault /\ [][NextFault]_vars

\* The cache calls of the requests, as <<task, index>>
RequestCalls ==
  {c \in Handled \X {1, 2} :
     "calls" \in DOMAIN tasks[c[1]] /\ c[2] \in DOMAIN tasks[c[1]].calls}

\* C11: a fault of KV never reaches the caller of getFromCache or setInCache
\* (no call of them is rejected), and no request fails by it (none is answered
\* 500)
C11_KvFaultNeverSurfaces ==
  /\ \A c \in RequestCalls : CallOf(c).st # "rejected"
  /\ \A t \in Answered : Val(tasks[t].response).status # 500

----------------------------------------------------------------------------
(* verifyApiKey and fetchPrompt under direct callers, with rows that appear *)

LookupTickLen == 200
MaxLookupElapsed == 400

Str_1_1_0 == <<"1", ".", "1", ".", "0">>

\* k_late expires 300 s after the start; k_new has no row at the start
LookupKeys == {"k_dis", "k_late", "k_noperm", "k_new"}

LookupApiKeyRow(k) ==
  [organization_id |-> "o1",
   permissions |-> IF k = "k_noperm" THEN [prompt |-> {"write"}] ELSE [prompt |-> {"read"}],
   enabled |-> IF k = "k_dis" THEN 0 ELSE 1,
   expires_at |-> IF k = "k_late" THEN Some(300000) ELSE Null]

LookupApiKeyRows ==
  [h \in {hashApiKey(k) : k \in LookupKeys \ {"k_new"}} |-> LookupApiKeyRow(h[2])]

\* p1 of o1 is there at the start with 1.0.0 published; p9 is created later
LookupPromptRow(id) ==
  [id |-> id, organization_id |-> "o1", name |-> "name", deleted_at |-> Null]

LookupVersionRow(id, minor) ==
  [prompt_id |-> id, major |-> Some(1), minor |-> Some(minor), patch |-> Some(0),
   system_message |-> <<"s", id, minor>>, published_at |-> Some(1)]

LookupPrompts == {"p1", "p9"}
LookupOrgs == {"o1", "o2"}
\* No version, two versions and a version that is no semver
LookupVersions == {Null, Some(Str_1_0_0), Some(Str_1_1_0), Some(Str_1_0)}

\* What a direct call remembers of its start: the time, the isolate, the calls
\* that had returned, and whether the row it is about was there
CallStart(top, there) ==
  [top |-> top, at |-> now, isolate |-> isolate,
   after |-> {u \in Tasks : tasks[u].pc = "done"}, there |-> there]

\* The two functions share no cache key and no table: the callers of a
\* behaviour call one of them, one call after the other
SameCallers(top) ==
  \A u \in Tasks : tasks[u].top \in {"none", top} /\ tasks[u].pc \in {"idle", "done"}

\* Some call of the function has returned and none is in flight
Returned(top) ==
  /\ \E u \in Tasks : tasks[u].top = top
  /\ \A u \in Tasks : tasks[u].pc \in {"idle", "done"}

\* A caller in this isolate calls verifyApiKey(env, apiKey, 'prompt:read')
CallVerifyApiKey(t) ==
  /\ CanStart(t)
  /\ SameCallers("verifyApiKey")
  /\ \E k \in LookupKeys :
       LET there == NotNull(SelectApiKey(apikey, hashApiKey(k)))
           r == VerifyApiKeyCall(CallStart("verifyApiKey", there), k,
                                 <<"prompt", "read">>, l1, now, isolate)
       IN /\ tasks' = [tasks EXCEPT ![t] = r.task]
          /\ l1' = r.l1
  /\ UNCHANGED <<clock, kv, d1>>

\* A caller in this isolate calls fetchPrompt(env, promptId, organizationId, version)
CallFetchPrompt(t) ==
  /\ CanStart(t)
  /\ SameCallers("fetchPrompt")
  /\ \E id \in LookupPrompts, org \in LookupOrgs, version \in LookupVersions :
       LET parsed == IF Truthy(version) THEN parseVersion(Val(version)) ELSE Null
           there == /\ Truthy(version) => NotNull(parsed)
                    /\ NotNull(SelectPrompt(prompt, id))
                    /\ Null \notin SelectVersion(prompt_version, id, parsed)
           r == FetchPromptCall(CallStart("fetchPrompt", there), id, org, version,
                                l1, now, isolate)
       IN /\ tasks' = [tasks EXCEPT ![t] = r.task]
          /\ l1' = r.l1
  /\ UNCHANGED <<clock, kv, d1>>

\* The dashboard creates the key k_new
CreateApiKey ==
  /\ Returned("verifyApiKey")
  /\ hashApiKey("k_new") \notin DOMAIN apikey
  /\ apikey' = apikey @@ (hashApiKey("k_new") :> LookupApiKeyRow("k_new"))
  /\ UNCHANGED <<clock, l1, kv, usage, usage0, subscription, prompt, prompt_version, tasks>>

\* The dashboard creates the prompt p9
CreatePrompt ==
  /\ Returned("fetchPrompt")
  /\ "p9" \notin DOMAIN prompt
  /\ prompt' = prompt @@ ("p9" :> LookupPromptRow("p9"))
  /\ UNCHANGED <<clock, l1, kv, usage, usage0, subscription, apikey, prompt_version, tasks>>

\* The dashboard publishes the next version of a prompt: 1.1.0 of p1, 1.0.0
\* of p9
PublishVersion ==
  /\ Returned("fetchPrompt")
  /\ \E id \in DOMAIN prompt :
       LET row == LookupVersionRow(id, IF id = "p1" THEN 1 ELSE 0)
       IN /\ row \notin prompt_version
          /\ prompt_version' = prompt_version \cup {row}
  /\ UNCHANGED <<clock, l1, kv, usage, usage0, subscription, apikey, prompt, tasks>>

\* Time passes between the calls
TickLookup ==
  /\ \A u \in Tasks : tasks[u].pc \in {"idle", "done"}
  /\ Advance(LookupTickLen, MaxLookupElapsed)

InitLookup ==
  /\ epoch = 0
  /\ now = epoch
  /\ isolate = 0
  /\ l1 = EmptyMap
  /\ kv = EmptyMap
  /\ usage = EmptyMap
  /\ usage0 = usage
  /\ subscription = EmptyMap
  /\ apikey = LookupApiKeyRows
  /\ prompt = [id \in {"p1"} |-> LookupPromptRow(id)]
  /\ prompt_version = {LookupVersionRow("p1", 0)}
  /\ tasks = [t \in Tasks |-> IdleTask]

NextLookup ==
  \/ \E t \in Tasks : CallVerifyApiKey(t)
  \/ \E t \in Tasks : CallFetchPrompt(t)
  \/ \E t \in Tasks, i \in 1..2 : KvGet(t, i)
  \/ \E t \in Tasks, i \in 1..2 : GetFromCacheResume(t, i)
  \/ \E t \in Tasks, i \in 1..2 : KvPut(t, i)
  \/ \E t \in Tasks, i \in 1..2 : SetInCacheResume(t, i)
  \/ \E t \in Tasks : VerifyApiKeyAfterGet(t)
  \/ \E t \in Tasks : D1SelectApiKey(t)
  \/ \E t \in Tasks : VerifyApiKeyAfterD1(t)
  \/ \E t \in Tasks : VerifyApiKeyAfterSet(t)
  \/ \E t \in Tasks : FetchPromptAfterGet(t)
  \/ \E t \in Tasks : D1SelectPrompt(t)
  \/ \E t \in Tasks : D1SelectVersion(t)
  \/ \E t \in Tasks : FetchPromptAfterD1(t)
  \/ \E t \in Tasks : FetchPromptAfterSet(t)
  \/ CreateApiKey
  \/ CreatePrompt
  \/ PublishVersion
  \/ TickLookup
  \/ IsolateRestart

SpecLookup == InitLookup /\ [][NextLookup]_vars

----------------------------------------------------------------------------
(* Claims about the lookups *)

LookupCalls(top) == {t \in Tasks : tasks[t].top = top}

\* The datastore queries a call has issued so far: each function has one
\* query of a kind on any path
KeyQueries(t) == IF tasks[t].keySt = "none" THEN 0 ELSE 1
PromptQueries(t) == IF tasks[t].promptSt = "none" THEN 0 ELSE 1
VersionQueries(t) == IF tasks[t].versionSt = "none" THEN 0 ELSE 1

\* Call b was made in the isolate of call a, after a had returned and at the
\* same reading of the clock
FollowsAtOnce(a, b) ==
  /\ a \in tasks[b].after
  /\ tasks[b].isolate = tasks[a].isolate
  /\ tasks[b].at = tasks[a].at

\* Call b was made in the isolate of call a, after a had returned and before
\* the L1 entries that a wrote expire
FollowsWithinTtl(a, b) ==
  /\ a \in tasks[b].after
  /\ tasks[b].isolate = tasks[a].isolate
  /\ tasks[b].at < tasks[a].at + L1_TTL

\* Call a of verifyApiKey missed the cache and cached the row it fetched
PopulatedKey(a) ==
  /\ tasks[a].pc = "done"
  /\ tasks[a].keySt = "ready"
  /\ NotNull(tasks[a].keyRow)

\* Call a of fetchPrompt fetched and cached the prompt row
PopulatedPrompt(a) ==
  /\ tasks[a].pc = "done"
  /\ tasks[a].promptSt = "ready"
  /\ NotNull(tasks[a].promptRow)

\* Call a of fetchPrompt fetched and cached the version row
PopulatedVersion(a) ==
  /\ tasks[a].pc = "done"
  /\ tasks[a].versionSt = "ready"
  /\ NotNull(tasks[a].versionRow)
  /\ NotNull(tasks[a].promptData)

\* The getFromCache call i of call b has returned the value v at once, read
\* from L1 (the calls of getFromCache are kept until setInCache is called)
ReadsLocally(b, i, v) ==
  i \in DOMAIN tasks[b].calls /\ tasks[b].calls[i].op = "get"
    => /\ tasks[b].pc # "idle"
       /\ tasks[b].calls[i].st = "returned"
       /\ tasks[b].calls[i].layer = "L1"
       /\ tasks[b].calls[i].val = Some(v)

KeyReadBack ==
  \A a, b \in LookupCalls("verifyApiKey") :
    PopulatedKey(a) /\ FollowsWithinTtl(a, b) /\ tasks[b].hashedKey = tasks[a].hashedKey
      => /\ KeyQueries(b) = 0
         /\ ReadsLocally(b, 1, CachedApiKeyOf(Val(tasks[a].keyRow)))
         /\ tasks[b].pc = "done" /\ FollowsAtOnce(a, b)
              => tasks[b].keyResult = tasks[a].keyResult

PromptReadBack ==
  \A a, b \in LookupCalls("fetchPrompt") :
    PopulatedPrompt(a) /\ FollowsWithinTtl(a, b) /\ tasks[b].promptId = tasks[a].promptId
      /\ tasks[b].calls # <<>>
      => /\ PromptQueries(b) = 0
         /\ ReadsLocally(b, 1, CachedPromptOf(Val(tasks[a].promptRow)))

VersionReadBack ==
  \A a, b \in LookupCalls("fetchPrompt") :
    /\ PopulatedVersion(a) /\ FollowsAtOnce(a, b)
    /\ tasks[b].promptId = tasks[a].promptId
    /\ tasks[b].version = tasks[a].version
    => /\ VersionQueries(b) = 0
       /\ PromptQueries(b) = 0
       /\ ReadsLocally(b, 2, CachedVersionOf(Val(tasks[a].versionRow)))
       /\ tasks[b].pc = "done" /\ tasks[b].organizationId = tasks[a].organizationId
            => tasks[b].promptResult = tasks[a].promptResult

\* The first call of verifyApiKey in a cold isolate with an empty KV
FirstKeyCallQueriesOnce ==
  \A a \in LookupCalls("verifyApiKey") :
    tasks[a].pc = "done" /\ tasks[a].after = {} /\ tasks[a].isolate = 0
      => KeyQueries(a) = 1

\* C12: after a call that missed the cache and populated it from the
\* datastore (an API key, a prompt, a prompt version), a call for the same key
\* that follows at once in the same isolate reads the same value from the cache
\* and issues no datastore query (for a key and a prompt, any call that
\* follows within the L1 TTL); the first call of verifyApiKey issues exactly
\* one query.
C12_ReadBackWithoutQuery ==
  /\ KeyReadBack
  /\ PromptReadBack
  /\ VersionReadBack
  /\ FirstKeyCallQueriesOnce

\* Both a key and a version were read back by a second call that has returned
C12_Witness ==
  \E a, b \in LookupCalls("fetchPrompt") :
    /\ PopulatedPrompt(a) /\ PopulatedVersion(a) /\ FollowsAtOnce(a, b)
    /\ tasks[b].promptId = tasks[a].promptId
    /\ tasks[b].version = tasks[a].version
    /\ tasks[b].pc = "done"
    /\ tasks[b].promptResult = tasks[a].promptResult
    /\ tasks[b].promptResult[1].ok
    /\ PromptQueries(b) + VersionQueries(b) = 0

\* No call was started after call a
IsLastCall(a) == \A b \in Tasks : tasks[b].pc = "idle" \/ a \notin tasks[b].after

\* The key has a live entry in L1 or in KV
IsCached(key) == NotNull(MemoryCacheGet(l1, key, now)) \/ NotNull(KvRead(kv, key, now))

\* The last call found no row and has returned: the key it looked up is in
\* neither tier, and the call has made no setInCache call for it
InvalidKeyNotCached ==
  \A a \in LookupCalls("verifyApiKey") :
    /\ tasks[a].pc = "done" /\ IsLastCall(a)
    /\ Val(tasks[a].keyResult).code = "INVALID_KEY"
    => /\ ~IsCached(ApiKeyCacheKey(tasks[a].hashedKey))
       /\ \A i \in DOMAIN tasks[a].calls : tasks[a].calls[i].op = "get"

MissingPromptNotCached ==
  \A a \in LookupCalls("fetchPrompt") :
    /\ tasks[a].pc = "done" /\ IsLastCall(a)
    /\ tasks[a].promptSt = "ready" /\ IsNull(tasks[a].promptRow)
    => /\ Val(tasks[a].promptResult).code = "NOT_FOUND"
       /\ ~IsCached(PromptCacheKey(tasks[a].promptId))
       /\ ~IsCached(VersionCacheKey(tasks[a].promptId, tasks[a].version))
       /\ \A i \in DOMAIN tasks[a].calls : tasks[a].calls[i].op = "get"

MissingVersionNotCached ==
  \A a \in LookupCalls("fetchPrompt") :
    /\ tasks[a].pc = "done" /\ IsLastCall(a)
    /\ Val(tasks[a].promptResult).code = "VERSION_NOT_FOUND"
    => /\ tasks[a].versionSt = "ready" /\ IsNull(tasks[a].versionRow)
       /\ ~IsCached(VersionCacheKey(tasks[a].promptId, tasks[a].version))
       /\ \A i \in DOMAIN tasks[a].calls :
            tasks[a].calls[i].op = "set"
              => tasks[a].calls[i].key = PromptCacheKey(tasks[a].promptId)

\* A call made when the row was there finds it: the key is not INVALID_KEY,
\* the prompt of the caller's organization is returned
CreatedIsFound ==
  /\ \A b \in LookupCalls("verifyApiKey") :
       tasks[b].pc = "done" /\ tasks[b].there
         => Val(tasks[b].keyResult).code # "INVALID_KEY"
  /\ \A b \in LookupCalls("fetchPrompt") :
       tasks[b].pc = "done" /\ tasks[b].there
         => IF tasks[b].organizationId = prompt[tasks[b].promptId].organization_id
              THEN Val(tasks[b].promptResult).ok
              ELSE Val(tasks[b].promptResult).code = "NOT_FOUND"

\* C13: a row that is not found is not cached: after verifyApiKey returns
\* INVALID_KEY, or fetchPrompt returns NOT_FOUND for a missing prompt or
\* VERSION_NOT_FOUND for a missing version, the looked-up key has an entry
\* in neither tier, and the next call after the row is created or the
\* version published finds it.
C13_NotFoundIsNotCached ==
  /\ InvalidKeyNotCached
  /\ MissingPromptNotCached
  /\ MissingVersionNotCached
  /\ CreatedIsFound

\* A version that was not found is published and the next call returns it
C13_Witness ==
  \E a, b \in LookupCalls("fetchPrompt") :
    /\ a \in tasks[b].after
    /\ tasks[b].promptId = tasks[a].promptId
    /\ tasks[b].version = tasks[a].version
    /\ tasks[b].organizationId = tasks[a].organizationId
    /\ Val(tasks[a].promptResult).code = "VERSION_NOT_FOUND"
    /\ tasks[b].pc = "done"
    /\ Val(tasks[b].promptResult).ok

\* A key that was not found is created and the next call accepts it
C13_WitnessKey ==
  \E a, b \in LookupCalls("verifyApiKey") :
    /\ a \in tasks[b].after
    /\ tasks[b].hashedKey = tasks[a].hashedKey
    /\ Val(tasks[a].keyResult).code = "INVALID_KEY"
    /\ tasks[b].pc = "done"
    /\ Val(tasks[b].keyResult).valid

\* The key of a specific version: version:{promptId}:{semver}
IsSpecificVersionKey(key) == key[1] = "version" /\ key[3] # LatestTag

\* The setInCache calls of the lookups in flight or returned
LookupSets ==
  {c \in (LookupCalls("verifyApiKey") \cup LookupCalls("fetchPrompt")) \X {1, 2} :
     c[2] \in DOMAIN tasks[c[1]].calls /\ CallOf(c).op = "set"}

\* kv.put is given no expirationTtl for a specific version, and a positive one
\* for every other key
PutOptionsByKey ==
  \A c \in LookupSets :
    IF IsSpecificVersionKey(CallOf(c).key)
      THEN CallOf(c).kvTtl = Some(0) /\ IsNull(CallOf(c).options)
      ELSE NotNull(CallOf(c).options) /\ Val(CallOf(c).options) > 0

\* The entries of KV: a specific version has no expiration and is read at any
\* time, every other entry has an expiration
KvExpiryByKey ==
  \A key \in DOMAIN kv :
    IF IsSpecificVersionKey(key)
      THEN IsNull(kv[key].expiration) /\ NotNull(KvRead(kv, key, now))
      ELSE NotNull(kv[key].expiration)

\* A call without a version writes no specific-version key, a call with a
\* version does not write the latest key
VersionKeyByRequest ==
  \A c \in LookupSets :
    tasks[c[1]].top = "fetchPrompt" /\ CallOf(c).key[1] = "version"
      => (IsSpecificVersionKey(CallOf(c).key) <=> Truthy(tasks[c[1]].version))

ResolvedReads ==
  {b \in LookupCalls("fetchPrompt") :
     /\ tasks[b].pc \in {"fp_d1", "done"}
     /\ Len(tasks[b].calls) = 2
     /\ \A i \in 1..2 : tasks[b].calls[i].op = "get"}

PromptWasCached(b) == NotNull(tasks[b].calls[1].val)
VersionWasCached(b) == NotNull(tasks[b].calls[2].val)

\* C15: in fetchPrompt, with the prompt and the version both cached no query
\* is issued, and with exactly one of them cached only the missing one is
\* queried, whichever of the two it is.
C15_OnlyMissingQueried ==
  \A b \in ResolvedReads :
    /\ PromptWasCached(b) /\ VersionWasCached(b)
         => PromptQueries(b) = 0 /\ VersionQueries(b) = 0
    /\ PromptWasCached(b) /\ ~VersionWasCached(b)
         => PromptQueries(b) = 0 /\ VersionQueries(b) = 1
    /\ ~PromptWasCached(b) /\ VersionWasCached(b)
         => PromptQueries(b) = 1 /\ VersionQueries(b) = 0

\* Where a call of verifyApiKey that has returned took the record from
KeySource(b) ==
  IF tasks[b].keySt = "ready" THEN "D1"
  ELSE IF tasks[b].calls[1].layer = "L1" THEN "L1" ELSE "KV"

\* The outcome of the checks on the stored record at the time of the call
OutcomeOfRecord(b) ==
  ValidateApiKey(CachedApiKeyOf(apikey[tasks[b].hashedKey]),
                 tasks[b].requiredPermission, tasks[b].at)

\* C16: for the same stored key record, the same required permission and the
\* same time, verifyApiKey returns the same outcome (valid, DISABLED, EXPIRED
\* or FORBIDDEN) whether it read the record from L1, from KV or from D1.
C16_OutcomeIgnoresSource ==
  /\ \A b \in LookupCalls("verifyApiKey") :
       tasks[b].pc = "done" /\ tasks[b].there
         => tasks[b].keyResult = Some(OutcomeOfRecord(b))
  /\ \A a, b \in LookupCalls("verifyApiKey") :
       /\ tasks[a].pc = "done" /\ tasks[b].pc = "done"
       /\ tasks[a].hashedKey = tasks[b].hashedKey
       /\ tasks[a].there /\ tasks[b].there
       /\ tasks[a].at = tasks[b].at
       => tasks[a].keyResult = tasks[b].keyResult

\* A key past its expiry is refused as EXPIRED from D1 and, in the next
\* isolate at the same time, from KV
C16_Witness ==
  \E a, b \in LookupCalls("verifyApiKey") :
    /\ tasks[a].pc = "done" /\ tasks[b].pc = "done"
    /\ tasks[a].hashedKey = tasks[b].hashedKey
    /\ tasks[a].at = tasks[b].at
    /\ KeySource(a) = "D1" /\ KeySource(b) = "KV"
    /\ Val(tasks[a].keyResult).code = "EXPIRED"
    /\ tasks[b].keyResult = tasks[a].keyResult

\* The same key is accepted from D1 and, at once after, from L1
C16_WitnessLocal ==
  \E a, b \in LookupCalls("verifyApiKey") :
    /\ tasks[a].pc = "done" /\ tasks[b].pc = "done"
    /\ tasks[a].hashedKey = tasks[b].hashedKey
    /\ tasks[a].at = tasks[b].at
    /\ KeySource(a) = "D1" /\ KeySource(b) = "L1"
    /\ Val(tasks[a].keyResult).valid
    /\ tasks[b].keyResult = tasks[a].keyResult

\* The caller's organization does not own the prompt, or the prompt has no row
NotOwner(b) ==
  \/ tasks[b].promptId \notin DOMAIN prompt
  \/ prompt[tasks[b].promptId].organization_id # tasks[b].organizationId

\* What fetchPrompt returns for a prompt that has no row: BAD_REQUEST for a
\* version that is no semver, else NOT_FOUND
AbsentPromptResult(b) ==
  IF Truthy(tasks[b].version) /\ IsNull(tasks[b].parsedVersion)
    THEN [ok |-> FALSE, code |-> "BAD_REQUEST"]
    ELSE [ok |-> FALSE, code |-> "NOT_FOUND"]

\* C17: fetchPrompt returns no prompt to a caller of another organization: in
\* every state of the cache such a call returns NOT_FOUND, as it does for a
\* prompt that has no row.
C17_OtherOrgIsNotFound ==
  \A b \in LookupCalls("fetchPrompt") :
    tasks[b].pc = "done"
      => /\ NotOwner(b) => tasks[b].promptResult = Some(AbsentPromptResult(b))
         /\ Val(tasks[b].promptResult).ok
              => /\ ~NotOwner(b)
                 /\ Val(tasks[b].promptResult).promptId = tasks[b].promptId

\* The owner's call has cached the prompt and the version; the call of the
\* other organization reads both from the cache and is answered NOT_FOUND
C17_Witness ==
  \E a, b \in LookupCalls("fetchPrompt") :
    /\ a \in tasks[b].after
    /\ Val(tasks[a].promptResult).ok
    /\ tasks[b].pc = "done"
    /\ tasks[b].promptId = tasks[a].promptId
    /\ tasks[b].organizationId # tasks[a].organizationId
    /\ b \in ResolvedReads /\ PromptWasCached(b) /\ VersionWasCached(b)
    /\ Val(tasks[b].promptResult).code = "NOT_FOUND"

\* The call of the other organization has filled the cache and was answered
\* NOT_FOUND; the owner's call is served from these entries
C17_WitnessFilledByOther ==
  \E a, b \in LookupCalls("fetchPrompt") :
    /\ a \in tasks[b].after
    /\ PopulatedPrompt(a) /\ PopulatedVersion(a)
    /\ Val(tasks[a].promptResult).code = "NOT_FOUND"
    /\ tasks[b].pc = "done"
    /\ b \in ResolvedReads /\ PromptWasCached(b) /\ VersionWasCached(b)
    /\ Val(tasks[b].promptResult).ok

----------------------------------------------------------------------------
(* The usage accounter under callers in sequence, the clock read in steps
   shorter than the TTL of a snapshot *)

NumCallers == 3
SeqTickLen == 40
MaxSeqElapsed == 120

Callers == 1..NumCallers

\* What a call remembers of its start: the time and the calls that had returned
SeqStart(top) ==
  [top |-> top, at |-> now, after |-> {u \in Callers : tasks[u].pc = "done"}]

\* A call starts when the calls before it have returned
CanStartSeq(t) ==
  /\ tasks[t].pc = "idle"
  /\ \A u \in Callers : u < t => tasks[u].pc = "done"

SeqCheckUsageLimit(t) ==
  /\ CanStartSeq(t)
  /\ \E org \in Orgs :
       LET r == CheckUsageLimitCall(SeqStart("checkUsageLimit"), org, l1, now)
       IN /\ tasks' = [tasks EXCEPT ![t] = r.task]
          /\ l1' = r.l1
  /\ UNCHANGED <<clock, kv, d1>>

SeqIncrementUsage(t) ==
  /\ CanStartSeq(t)
  /\ \E org \in Orgs :
       tasks' = [tasks EXCEPT ![t] = IncrementUsageCall(SeqStart("incrementUsage"), org, now)]
  /\ UNCHANGED <<clock, l1, kv, d1>>

\* Time passes between the calls
TickSeq ==
  /\ \A u \in Callers : tasks[u].pc \in {"idle", "done"}
  /\ Advance(SeqTickLen, MaxSeqElapsed)

\* The clock starts with a month, which the calls stay in
InitSeq ==
  /\ epoch = 0
  /\ now = epoch
  /\ isolate = 0
  /\ l1 = EmptyMap
  /\ kv = EmptyMap
  /\ apikey = EmptyMap
  /\ prompt = EmptyMap
  /\ prompt_version = {}
  /\ subscription \in SubscriptionRows
  /\ usage \in InitUsageTables(subscription, epoch)
  /\ usage0 = usage
  /\ tasks = [t \in Callers |-> IdleTask]

NextSeq ==
  \/ \E t \in Callers : SeqCheckUsageLimit(t)
  \/ \E t \in Callers : D1SelectSubscription(t)
  \/ \E t \in Callers : GetPlanInfoResume(t)
  \/ \E t \in Callers : D1SelectCount(t)
  \/ \E t \in Callers : CheckUsageLimitResume(t)
  \/ \E t \in Callers : SeqIncrementUsage(t)
  \/ \E t \in Callers : D1Batch(t)
  \/ \E t \in Callers : IncrementUsageResume(t)
  \/ TickSeq

SpecSeq == InitSeq /\ [][NextSeq]_vars

----------------------------------------------------------------------------
(* Claims about the usage accounter under callers in sequence *)

SeqChecks == {t \in Callers : tasks[t].top = "checkUsageLimit" /\ tasks[t].pc = "done"}

\* The incrementUsage calls that have returned after a batch that D1 ran
SeqIncrements ==
  {t \in Callers : tasks[t].top = "incrementUsage" /\ tasks[t].pc = "done"
                   /\ tasks[t].batchSt = "ok"}

\* The call read the count from D1
ReadTheStore(t) == tasks[t].countSt = "ready"

\* Calls a, i, b follow each other, i an increment of the tenant and period
\* that the checks a and b are about
CheckIncrementCheck(a, i, b) ==
  /\ a \in SeqChecks /\ i \in SeqIncrements /\ b \in SeqChecks
  /\ tasks[i].after = {a} /\ tasks[b].after = {a, i}
  /\ tasks[a].org = tasks[i].incOrg /\ tasks[b].org = tasks[a].org
  /\ tasks[a].period = tasks[i].incPeriod /\ tasks[b].period = tasks[a].period

\* The finite limit of the plan a check went by is L
LimitIs(t, L) == Val(tasks[t].planInfo).limit = Some(L)

\* C18: with a limit L and a durable count of L - 1, checkUsageLimit returns
\* allowed and remaining 1; after one incrementUsage whose write went through,
\* a checkUsageLimit that reads the count from the store returns not allowed
\* and remaining 0.
C18_LastCallThenRefused ==
  \A a, i, b \in Callers :
    /\ CheckIncrementCheck(a, i, b)
    /\ ReadTheStore(a) /\ ReadTheStore(b)
    /\ NotNull(Val(tasks[a].planInfo).limit)
    /\ CountOf(tasks[a]) = Val(Val(tasks[a].planInfo).limit) - 1
    => /\ Val(tasks[a].usageStatus).allowed
       /\ Val(tasks[a].usageStatus).remaining = Some(1)
       /\ ~Val(tasks[b].usageStatus).allowed
       /\ Val(tasks[b].usageStatus).remaining = Some(0)
       /\ Val(tasks[b].usageStatus).used = Val(tasks[a].usageStatus).used + 1

\* The free tenant at 4999 of 5000 was allowed, one increment was written, and
\* the check that read the store after the snapshot had expired was refused
C18_Witness ==
  \E a, i, b \in Callers :
    /\ CheckIncrementCheck(a, i, b)
    /\ ReadTheStore(a) /\ ReadTheStore(b)
    /\ LimitIs(a, FREE_LIMIT)
    /\ CountOf(tasks[a]) = FREE_LIMIT - 1
    /\ Val(tasks[a].usageStatus).remaining = Some(1)
    /\ ~Val(tasks[b].usageStatus).allowed
    /\ Val(tasks[b].usageStatus).remaining = Some(0)

\* A step in which an incrementUsage call returns
IncrementReturns(t) == tasks[t].pc = "inc_wait" /\ tasks'[t].pc = "done"

\* Such a step replaces a live snapshot of the tenant and period by one that
\* counts one more, after a batch that D1 ran; it creates no snapshot, and
\* leaves every other entry of L1 as it is
BumpOnlyWhenPresent ==
  \A t \in Callers :
    IncrementReturns(t) =>
      LET key == UsageKey(tasks[t].incOrg, tasks[t].incPeriod)
          cached == MemoryCacheGet(l1, key, now)
      IN /\ MemoryCacheGet(l1', key, now) =
              IF tasks[t].batchSt = "ok" /\ NotNull(cached)
                THEN Some([count |-> Val(cached).count + 1, period |-> Val(cached).period])
                ELSE cached
         /\ \A k \in (DOMAIN l1 \cup DOMAIN l1') \ {key} :
              MemoryCacheGet(l1', k, now) = MemoryCacheGet(l1, k, now)

\* The check that follows an increment: after a bump, and before the bumped
\* snapshot expires, it reports one more than the check before without a count
\* query; without a bump it finds no snapshot and reads the store
NextCheckSeesBump ==
  \A a, i, b \in Callers :
    CheckIncrementCheck(a, i, b) =>
      IF tasks[i].incBumped
        THEN tasks[b].at < tasks[i].at + USAGE_CACHE_TTL
               => /\ NotNull(tasks[b].cachedUsage)
                  /\ ~ReadTheStore(b)
                  /\ Val(tasks[b].usageStatus).used = Val(tasks[a].usageStatus).used + 1
        ELSE ReadTheStore(b)

\* C19: after a write that went through, incrementUsage raises the count of
\* the L1 usage snapshot by exactly one when there is a snapshot and creates
\* none when there is not, so that the next checkUsageLimit of the isolate
\* reports one more used without a count query.
C19_OptimisticBump == [][BumpOnlyWhenPresent]_vars /\ []NextCheckSeesBump

\* A check took a snapshot, an increment bumped it, and the next check was
\* served from it with one more used
C19_Witness ==
  \E a, i, b \in Callers :
    /\ CheckIncrementCheck(a, i, b)
    /\ ReadTheStore(a)
    /\ tasks[i].incBumped
    /\ NotNull(tasks[b].cachedUsage) /\ ~ReadTheStore(b)
    /\ Val(tasks[b].usageStatus).used = CountOf(tasks[a]) + 1

\* The checkUsageLimit calls that were served the count of an L1 snapshot
ServedFromSnapshot ==
  {b \in Callers : tasks[b].top = "checkUsageLimit" /\ NotNull(tasks[b].cachedUsage)}

\* C20: an L1 usage snapshot is read again from the store no later than
\* USAGE_CACHE_TTL (60 s) after it was read from it, whatever calls are made in
\* between: a check that is served from a snapshot comes at most 60 s after a
\* check of the tenant and period that read the store.
C20_SnapshotRereadWithinTtl ==
  \A b \in ServedFromSnapshot :
    \E a \in tasks[b].after :
      /\ tasks[a].top = "checkUsageLimit"
      /\ ReadTheStore(a)
      /\ tasks[a].org = tasks[b].org /\ tasks[a].period = tasks[b].period
      /\ tasks[b].at - tasks[a].at <= USAGE_CACHE_TTL

----------------------------------------------------------------------------
(* The lookups while the dashboard changes the rows they have cached *)

StaleTickLen == 200
MaxStaleElapsed == 400

\* What the README promises for the latest pointer, in seconds
README_LATEST_TTL == 60

\* What a call remembers of its start: the time, the isolate, the calls that
\* had returned, and whether the dashboard had made its change
StaleStart(top, changed) ==
  [top |-> top, at |-> now, isolate |-> isolate,
   after |-> {u \in Callers : tasks[u].pc = "done"}, changed |-> changed]

\* The callers of a behaviour call one of the two functions
StaleCallers(top) == \A u \in Callers : tasks[u].top \in {"none", top}

NoCallInFlight == \A u \in Callers : tasks[u].pc \in {"idle", "done"}

\* A caller calls verifyApiKey(env, 'k_live', 'prompt:read')
StaleVerifyApiKey(t) ==
  /\ CanStartSeq(t)
  /\ StaleCallers("verifyApiKey")
  /\ LET changed == apikey[hashApiKey("k_live")].enabled = 0
         r == VerifyApiKeyCall(StaleStart("verifyApiKey", changed), "k_live",
                               <<"prompt", "read">>, l1, now, isolate)
     IN /\ tasks' = [tasks EXCEPT ![t] = r.task]
        /\ l1' = r.l1
  /\ UNCHANGED <<clock, kv, d1>>

\* A caller calls fetchPrompt(env, 'p1', 'o1', version), without a version or
\* for the version that is published later
StaleFetchPrompt(t) ==
  /\ CanStartSeq(t)
  /\ StaleCallers("fetchPrompt")
  /\ \E version \in {Null, Some(Str_1_1_0)} :
       LET changed == LookupVersionRow("p1", 1) \in prompt_version
           r == FetchPromptCall(StaleStart("fetchPrompt", changed), "p1", "o1", version,
                                l1, now, isolate)
       IN /\ tasks' = [tasks EXCEPT ![t] = r.task]
          /\ l1' = r.l1
  /\ UNCHANGED <<clock, kv, d1>>

\* The dashboard disables the key, before the clock has moved
DisableApiKey ==
  /\ now = epoch
  /\ NoCallInFlight
  /\ StaleCallers("verifyApiKey")
  /\ apikey[hashApiKey("k_live")].enabled = 1
  /\ apikey' = [apikey EXCEPT ![hashApiKey("k_live")].enabled = 0]
  /\ UNCHANGED <<clock, l1, kv, usage, usage0, subscription, prompt, prompt_version, tasks>>

\* The dashboard publishes 1.1.0 of p1, before the clock has moved
PublishLatest ==
  /\ now = epoch
  /\ NoCallInFlight
  /\ StaleCallers("fetchPrompt")
  /\ LookupVersionRow("p1", 1) \notin prompt_version
  /\ prompt_version' = prompt_version \cup {LookupVersionRow("p1", 1)}
  /\ UNCHANGED <<clock, l1, kv, usage, usage0, subscription, apikey, prompt, tasks>>

\* Time passes between the calls
TickStale ==
  /\ NoCallInFlight
  /\ Advance(StaleTickLen, MaxStaleElapsed)

\* Between two calls the next one is routed to an isolate that has just started
RestartStale ==
  /\ NoCallInFlight
  /\ isolate < MaxRestarts
  /\ isolate' = isolate + 1
  /\ l1' = EmptyMap
  /\ UNCHANGED <<now, epoch, kv, d1, tasks>>

InitStale ==
  /\ epoch = 0
  /\ now = epoch
  /\ isolate = 0
  /\ l1 = EmptyMap
  /\ kv = EmptyMap
  /\ usage = EmptyMap
  /\ usage0 = usage
  /\ subscription = EmptyMap
  /\ apikey = [h \in {hashApiKey("k_live")} |-> LookupApiKeyRow("k_live")]
  /\ prompt = [id \in {"p1"} |-> LookupPromptRow(id)]
  /\ prompt_version = {LookupVersionRow("p1", 0)}
  /\ tasks = [t \in Callers |-> IdleTask]

NextStale ==
  \/ \E t \in Callers : StaleVerifyApiKey(t)
  \/ \E t \in Callers : StaleFetchPrompt(t)
  \/ \E t \in Callers, i \in 1..2 : KvGet(t, i)
  \/ \E t \in Callers, i \in 1..2 : GetFromCacheResume(t, i)
  \/ \E t \in Callers, i \in 1..2 : KvPut(t, i)
  \/ \E t \in Callers, i \in 1..2 : SetInCacheResume(t, i)
  \/ \E t \in Callers : VerifyApiKeyAfterGet(t)
  \/ \E t \in Callers : D1SelectApiKey(t)
  \/ \E t \in Callers : VerifyApiKeyAfterD1(t)
  \/ \E t \in Callers : VerifyApiKeyAfterSet(t)
  \/ \E t \in Callers : FetchPromptAfterGet(t)
  \/ \E t \in Callers : D1SelectPrompt(t)
  \/ \E t \in Callers : D1SelectVersion(t)
  \/ \E t \in Callers : FetchPromptAfterD1(t)
  \/ \E t \in Callers : FetchPromptAfterSet(t)
  \/ DisableApiKey
  \/ PublishLatest
  \/ TickStale
  \/ RestartStale

SpecStale == InitStale /\ [][NextStale]_vars

----------------------------------------------------------------------------
(* Claims about stale entries *)

StaleCalls(top) == {t \in Callers : tasks[t].top = top /\ tasks[t].pc = "done"}

\* C21: after the key is disabled in the datastore, verifyApiKey returns Valid
\* for it for at most one TTL window (L2_TTL seconds) counted from the disable:
\* every call that starts later than that returns DISABLED.
C21_DisabledWithinOneTtl ==
  \A b \in StaleCalls("verifyApiKey") :
    tasks[b].changed /\ tasks[b].at > epoch + L2_TTL
      => Val(tasks[b].keyResult).code = "DISABLED"

\* C22: after a new highest version is published, every request without a
\* version made more than 60 seconds later returns the new version.
C22_LatestWithinSixtySeconds ==
  \A b \in StaleCalls("fetchPrompt") :
    /\ tasks[b].changed
    /\ IsNull(tasks[b].version)
    /\ tasks[b].at > epoch + README_LATEST_TTL
    => /\ Val(tasks[b].promptResult).ok
       /\ Val(tasks[b].promptResult).version = Str_1_1_0

----------------------------------------------------------------------------
(* Concurrent lookups of one key on cold caches *)

\* The next caller starts while the calls before it may be in flight
CanStartRace(t) ==
  /\ tasks[t].pc = "idle"
  /\ \A u \in Callers : u < t => tasks[u].pc # "idle"

RaceVerifyApiKey(t) ==
  /\ CanStartRace(t)
  /\ StaleCallers("verifyApiKey")
  /\ LET r == VerifyApiKeyCall([top |-> "verifyApiKey"], "k_live",
                               <<"prompt", "read">>, l1, now, isolate)
     IN /\ tasks' = [tasks EXCEPT ![t] = r.task]
        /\ l1' = r.l1
  /\ UNCHANGED <<clock, kv, d1>>

RaceFetchPrompt(t) ==
  /\ CanStartRace(t)
  /\ StaleCallers("fetchPrompt")
  /\ LET r == FetchPromptCall([top |-> "fetchPrompt"], "p1", "o1", Null, l1, now, isolate)
     IN /\ tasks' = [tasks EXCEPT ![t] = r.task]
        /\ l1' = r.l1
  /\ UNCHANGED <<clock, kv, d1>>

\* The dashboard disables the key while calls are in flight
RaceDisableApiKey ==
  /\ StaleCallers("verifyApiKey")
  /\ apikey[hashApiKey("k_live")].enabled = 1
  /\ apikey' = [apikey EXCEPT ![hashApiKey("k_live")].enabled = 0]
  /\ UNCHANGED <<clock, l1, kv, usage, usage0, subscription, prompt, prompt_version, tasks>>

\* The dashboard publishes 1.1.0 of p1 while calls are in flight
RacePublishLatest ==
  /\ StaleCallers("fetchPrompt")
  /\ LookupVersionRow("p1", 1) \notin prompt_version
  /\ prompt_version' = prompt_version \cup {LookupVersionRow("p1", 1)}
  /\ UNCHANGED <<clock, l1, kv, usage, usage0, subscription, apikey, prompt, tasks>>

NextRace ==
  \/ \E t \in Callers : RaceVerifyApiKey(t)
  \/ \E t \in Callers : RaceFetchPrompt(t)
  \/ \E t \in Callers, i \in 1..2 : KvGet(t, i)
  \/ \E t \in Callers, i \in 1..2 : GetFromCacheResume(t, i)
  \/ \E t \in Callers, i \in 1..2 : KvPut(t, i)
  \/ \E t \in Callers, i \in 1..2 : SetInCacheResume(t, i)
  \/ \E t \in Callers : VerifyApiKeyAfterGet(t)
  \/ \E t \in Callers : D1SelectApiKey(t)
  \/ \E t \in Callers : VerifyApiKeyAfterD1(t)
  \/ \E t \in Callers : VerifyApiKeyAfterSet(t)
  \/ \E t \in Callers : FetchPromptAfterGet(t)
  \/ \E t \in Callers : D1SelectPrompt(t)
  \/ \E t \in Callers : D1SelectVersion(t)
  \/ \E t \in Callers : FetchPromptAfterD1(t)
  \/ \E t \in Callers : FetchPromptAfterSet(t)
  \/ RaceDisableApiKey
  \/ RacePublishLatest

SpecRace == InitStale /\ [][NextRace]_vars

----------------------------------------------------------------------------
(* Claims about concurrent lookups *)

\* The calls that have returned after a cache miss: they hold the setInCache
\* calls they made
MissedAndReturned ==
  {t \in Callers : /\ tasks[t].pc = "done"
                   /\ tasks[t].calls # <<>>
                   /\ tasks[t].calls[1].op = "set"}

\* What call t read from the datastore, as it caches it
ValuesRead(t) ==
  IF tasks[t].top = "verifyApiKey"
    THEN (IF NotNull(tasks[t].keyRow) THEN {CachedApiKeyOf(Val(tasks[t].keyRow))} ELSE {})
    ELSE (IF NotNull(tasks[t].promptRow)
            THEN {CachedPromptOf(Val(tasks[t].promptRow))} ELSE {})
         \cup (IF NotNull(tasks[t].versionRow)
                 THEN {CachedVersionOf(Val(tasks[t].versionRow))} ELSE {})

\* A call that missed has queried the datastore, has written both tiers, and
\* returns what it read itself
EachQueriesAndWrites ==
  \A t \in MissedAndReturned :
    /\ \A i \in DOMAIN tasks[t].calls :
         /\ tasks[t].calls[i].st = "returned"
         /\ tasks[t].calls[i].kvWritten
         /\ tasks[t].calls[i].value \in ValuesRead(t)
    /\ tasks[t].top = "verifyApiKey"
         => /\ tasks[t].keySt = "ready"
            /\ Val(tasks[t].keyResult) =
                 ValidateApiKey(CachedApiKeyOf(Val(tasks[t].keyRow)),
                                tasks[t].requiredPermission, now)
    /\ tasks[t].top = "fetchPrompt"
         => /\ tasks[t].versionSt = "ready"
            /\ Val(tasks[t].promptResult).ok
            /\ Val(tasks[t].promptResult).version =
                 CachedVersionOf(Val(tasks[t].versionRow)).version

\* No call is stuck or has thrown: when nothing can happen any more, every
\* call that started has returned
NoCallFails ==
  /\ \A t \in Callers : tasks[t].pc # "threw"
  /\ ~(ENABLED NextRace) => \A t \in Callers : tasks[t].pc = "done"

\* Every entry of either tier is a value that some call read from the datastore
CacheHoldsValuesRead ==
  /\ \A key \in DOMAIN l1 :
       \E t \in Callers : tasks[t].pc # "idle" /\ l1[key].value \in ValuesRead(t)
  /\ \A key \in DOMAIN kv :
       \E t \in Callers : tasks[t].pc # "idle" /\ JsonParse(kv[key].value) \in ValuesRead(t)

\* Call t writes L1 in this step: it leaves its queries for its setInCache calls
WritesL1(t) ==
  /\ tasks[t].pc \in {"vak_d1", "fp_d1"}
  /\ tasks'[t].pc \in {"vak_set", "fp_set"}

\* The kv.put of call i of t runs in this step
PutRuns(t, i) ==
  /\ tasks[t].pc \in {"vak_set", "fp_set"}
  /\ i \in DOMAIN tasks[t].calls
  /\ tasks[t].calls[i].st = "put_pending"
  /\ tasks'[t].calls[i].st = "put_done"

\* A write replaces the entry, whatever it held
LastWriteWins ==
  /\ \A t \in Callers :
       WritesL1(t) => \A i \in DOMAIN tasks'[t].calls :
                        /\ tasks'[t].calls[i].key \in DOMAIN l1'
                        /\ l1'[tasks'[t].calls[i].key].value = tasks'[t].calls[i].value
  /\ \A t \in Callers, i \in 1..2 :
       PutRuns(t, i) => /\ tasks[t].calls[i].key \in DOMAIN kv'
                        /\ JsonParse(kv'[tasks[t].calls[i].key].value) = tasks[t].calls[i].value

\* C23: concurrent calls for one uncached key that all miss the cache each
\* query the datastore and each write the cache; none fails; each write
\* replaces the entry, so that the cache holds the value of the last write,
\* which some call read from the datastore.
C23_ConcurrentMissesAllWrite ==
  /\ []EachQueriesAndWrites
  /\ []NoCallFails
  /\ []CacheHoldsValuesRead
  /\ [][LastWriteWins]_vars

\* Three calls of verifyApiKey have all missed and returned, they did not all
\* read the same row, and L1 holds the row that is disabled
C23_Witness ==
  /\ Cardinality(MissedAndReturned) = NumCallers
  /\ \A t \in Callers : tasks[t].top = "verifyApiKey"
  /\ \E a, b \in MissedAndReturned : tasks[a].keyRow # tasks[b].keyRow
  /\ ~l1[ApiKeyCacheKey(hashApiKey("k_live"))].value.enabled
  /\ JsonParse(kv[ApiKeyCacheKey(hashApiKey("k_live"))].value).enabled

\* Three calls of fetchPrompt have all missed and returned with different
\* versions
C23_WitnessPrompt ==
  /\ Cardinality(MissedAndReturned) = NumCallers
  /\ \A t \in Callers : tasks[t].top = "fetchPrompt"
  /\ \E a, b \in MissedAndReturned : tasks[a].promptResult # tasks[b].promptResult

----------------------------------------------------------------------------
(* Faults of the datastore on the read paths *)

\* D1 fails the key query: first() rejects, verifyApiKey and handleRequest
\* have no catch around their awaits
D1SelectApiKeyFault(t) ==
  /\ tasks[t].pc = "vak_d1"
  /\ tasks[t].keySt = "pending"
  /\ tasks' = [tasks EXCEPT ![t].keySt = "failed", ![t].pc = "threw"]
  /\ UNCHANGED <<clock, l1, kv, d1>>

\* D1 fails the prompt query: Promise.all rejects, whatever the version query
\* does
D1SelectPromptFault(t) ==
  /\ tasks[t].pc = "fp_d1"
  /\ tasks[t].promptSt = "pending"
  /\ tasks' = [tasks EXCEPT ![t].promptSt = "failed", ![t].pc = "threw"]
  /\ UNCHANGED <<clock, l1, kv, d1>>

\* D1 fails the version query
D1SelectVersionFault(t) ==
  /\ tasks[t].pc = "fp_d1"
  /\ tasks[t].versionSt = "pending"
  /\ tasks' = [tasks EXCEPT ![t].versionSt = "failed", ![t].pc = "threw"]
  /\ UNCHANGED <<clock, l1, kv, d1>>

\* D1 fails the count query of checkUsageLimit: Promise.all rejects, while
\* getPlanInfo may still be waiting for its own query
D1SelectCountFault(t) ==
  /\ tasks[t].pc = "cul_wait"
  /\ tasks[t].countSt = "pending"
  /\ tasks' = [tasks EXCEPT ![t].countSt = "failed", ![t].pc = "threw"]
  /\ UNCHANGED <<clock, l1, kv, d1>>

\* D1 fails the subscription query of getPlanInfo, which rejects
D1SelectSubscriptionFault(t) ==
  /\ tasks[t].pc = "cul_wait"
  /\ tasks[t].planSt = "pending"
  /\ tasks' = [tasks EXCEPT ![t].planSt = "failed", ![t].pc = "threw"]
  /\ UNCHANGED <<clock, l1, kv, d1>>

\* getPlanInfo goes on after the count query has failed: its query is answered
\* and it caches the plan, for no caller
GetPlanInfoDetached(t) ==
  /\ tasks[t].top = "handleRequest"
  /\ "countSt" \in DOMAIN tasks[t]
  /\ tasks[t].countSt = "failed"
  /\ tasks[t].planSt = "pending"
  /\ LET planInfo == PlanInfoOf(SelectSubscription(subscription, tasks[t].org))
     IN /\ l1' = MemoryCacheSet(l1, PlanKey(tasks[t].org), planInfo, PLAN_CACHE_TTL, now)
        /\ tasks' = [tasks EXCEPT ![t].planSt = "ready",
                                  ![t].planInfo = Some(planInfo)]
  /\ UNCHANGED <<clock, kv, d1>>

\* Requests with a key: for the latest version of p1, for a version and a
\* prompt that do not exist, and with a key that does not exist
D1FaultRequests ==
  {Request("GET", Some("p1"), Bearer("k_good"), v) : v \in {Null, Some(Str_2_0_0)}}
  \cup {Request("GET", Some("p9"), Bearer("k_good"), Null),
        Request("GET", Some("p1"), Bearer("k_none"), Null)}

ReceiveD1FaultRequest(t) ==
  /\ CanStart(t)
  /\ Cardinality(InFlight) < MaxInFlight
  /\ \E req \in D1FaultRequests :
       LET r == HandleRequestCall(tasks[t], req, l1, now, isolate)
       IN /\ tasks' = [tasks EXCEPT ![t] = r.task]
          /\ l1' = r.l1
  /\ UNCHANGED <<clock, kv, d1>>

NextD1Fault ==
  \/ \E t \in Tasks : ReceiveD1FaultRequest(t)
  \/ \E t \in Tasks, i \in 1..2 : KvGet(t, i)
  \/ \E t \in Tasks, i \in 1..2 : GetFromCacheResume(t, i)
  \/ \E t \in Tasks, i \in 1..2 : KvPut(t, i)
  \/ \E t \in Tasks, i \in 1..2 : SetInCacheResume(t, i)
  \/ \E t \in Tasks : FetchCatch(t)
  \/ \E t \in Tasks : VerifyApiKeyAfterGet(t)
  \/ \E t \in Tasks : D1SelectApiKey(t)
  \/ \E t \in Tasks : D1SelectApiKeyFault(t)
  \/ \E t \in Tasks : VerifyApiKeyAfterD1(t)
  \/ \E t \in Tasks : VerifyApiKeyAfterSet(t)
  \/ \E t \in Tasks : HandleRequestAfterKey(t)
  \/ \E t \in Tasks : D1SelectSubscription(t)
  \/ \E t \in Tasks : D1SelectSubscriptionFault(t)
  \/ \E t \in Tasks : GetPlanInfoResume(t)
  \/ \E t \in Tasks : GetPlanInfoDetached(t)
  \/ \E t \in Tasks : D1SelectCount(t)
  \/ \E t \in Tasks : D1SelectCountFault(t)
  \/ \E t \in Tasks : CheckUsageLimitResume(t)
  \/ \E t \in Tasks : HandleRequestAfterUsage(t)
  \/ \E t \in Tasks : FetchPromptAfterGet(t)
  \/ \E t \in Tasks : D1SelectPrompt(t)
  \/ \E t \in Tasks : D1SelectPromptFault(t)
  \/ \E t \in Tasks : D1SelectVersion(t)
  \/ \E t \in Tasks : D1SelectVersionFault(t)
  \/ \E t \in Tasks : FetchPromptAfterD1(t)
  \/ \E t \in Tasks : FetchPromptAfterSet(t)
  \/ \E t \in Tasks : HandleRequestAfterPrompt(t)
  \/ \E t \in Tasks : D1Batch(t)
  \/ \E t \in Tasks : IncrementUsageResume(t)

SpecD1Fault == InitFault /\ [][NextD1Fault]_vars

\* The lookups of request t that D1 has failed, each with its cache key
FailedLookups(t) ==
  LET tk == tasks[t]
      failed(f) == f \in DOMAIN tk /\ tk[f] = "failed"
  IN (IF failed("keySt") THEN {<<"keySt", ApiKeyCacheKey(tk.hashedKey)>>} ELSE {})
     \cup (IF failed("promptSt") THEN {<<"promptSt", PromptCacheKey(tk.promptId)>>} ELSE {})
     \cup (IF failed("versionSt")
             THEN {<<"versionSt", VersionCacheKey(tk.promptId, tk.version)>>} ELSE {})
     \cup (IF failed("countSt") THEN {<<"countSt", UsageKey(tk.org, tk.period)>>} ELSE {})
     \cup (IF failed("planSt") THEN {<<"planSt", PlanKey(tk.org)>>} ELSE {})

\* A request is answered 500 INTERNAL_ERROR if and only if one of its lookups
\* failed
FaultIsInternalError ==
  \A t \in Answered :
    FailedLookups(t) # {} <=> tasks[t].response = Some(Response(500, "INTERNAL_ERROR", Null))

\* A failed lookup ends the request: it runs no later step and schedules no
\* increment
FaultEndsRequest ==
  \A t \in Handled :
    FailedLookups(t) # {} => /\ tasks[t].pc \in {"threw", "done"}
                             /\ tasks[t].scheduled = 0
                             /\ Cardinality(FailedLookups(t)) = 1

\* The entry of a lookup that failed is in neither tier, unless another
\* request has read the entity from the datastore
FailedLookupNotCached ==
  \A t \in Handled : \A e \in FailedLookups(t) :
    IsCached(e[2]) =>
      \E u \in Handled \ {t} : e[1] \in DOMAIN tasks[u] /\ tasks[u][e[1]] = "ready"

\* C24: a datastore fault on a read path (key, prompt, version, usage count,
\* plan) ends the request with 500 INTERNAL_ERROR, which no request without a
\* fault gets (a not-found outcome is 401 or 404), and leaves no cache entry
\* for the entity whose lookup failed.
C24_ReadFaultIsInternalError ==
  /\ FaultIsInternalError
  /\ FaultEndsRequest
  /\ FailedLookupNotCached

\* The version query of a request failed after its prompt query had found the
\* row: the request is answered 500 and neither entity is cached
C24_Witness ==
  \E t \in Answered :
    /\ tasks[t].pc = "done"
    /\ "versionSt" \in DOMAIN tasks[t]
    /\ tasks[t].versionSt = "failed"
    /\ tasks[t].promptSt = "ready"
    /\ NotNull(tasks[t].promptRow)
    /\ Val(tasks[t].response).status = 500
    /\ ~IsCached(PromptCacheKey(tasks[t].promptId))

----------------------------------------------------------------------------
(* Claims about a read that follows a write *)

\* A caller calls getFromCache(kv, key) while other calls may be in flight
RaceGetFromCache(t) ==
  /\ CanStartRace(t)
  /\ \E key \in FacadeKeys :
       LET call == GetFromCacheCall(key, l1, now, isolate)
       IN /\ tasks' = [tasks EXCEPT ![t] =
                         IF call.st = "returned"
                           THEN [top |-> "getFromCache", pc |-> "done", calls |-> <<call>>]
                           ELSE [top |-> "getFromCache", pc |-> "cache_wait", calls |-> <<call>>]]
          /\ l1' = MemoryCacheEvict(l1, key, now)
  /\ UNCHANGED <<clock, kv, d1>>

\* A caller calls setInCache(kv, key, value, kvTtl) while other calls may be in
\* flight
RaceSetInCache(t) ==
  /\ CanStartRace(t)
  /\ \E key \in FacadeKeys, value \in FacadeValues, kvTtl \in FacadeTtls :
       LET call == SetInCacheCall(key, value, kvTtl, isolate)
       IN /\ tasks' = [tasks EXCEPT ![t] =
                         IF call.st = "returned"
                           THEN [top |-> "setInCache", pc |-> "done", calls |-> <<call>>]
                           ELSE [top |-> "setInCache", pc |-> "cache_wait", calls |-> <<call>>]]
          /\ l1' = SetInCacheL1(l1, key, value, now)
  /\ UNCHANGED <<clock, kv, d1>>

InitCacheRace ==
  /\ epoch = 0
  /\ now = epoch
  /\ isolate = 0
  /\ l1 = EmptyMap
  /\ kv \in InitKvStates
  /\ usage = EmptyMap
  /\ usage0 = usage
  /\ subscription = EmptyMap
  /\ apikey = EmptyMap
  /\ prompt = EmptyMap
  /\ prompt_version = {}
  /\ tasks = [t \in Callers |-> IdleTask]

\* Three callers of one isolate, while the clock stands still
NextCacheRace ==
  \/ \E t \in Callers : RaceGetFromCache(t)
  \/ \E t \in Callers : RaceSetInCache(t)
  \/ \E t \in Callers : KvGet(t, 1)
  \/ \E t \in Callers : GetFromCacheResume(t, 1)
  \/ \E t \in Callers : KvPut(t, 1)
  \/ \E t \in Callers : SetInCacheResume(t, 1)

SpecCacheRace == InitCacheRace /\ [][NextCacheRace]_vars

\* The setInCache calls for the key that have returned
SetsCompleted(key) ==
  {u \in Callers : /\ tasks[u].top = "setInCache"
                   /\ tasks[u].pc = "done"
                   /\ tasks[u].calls[1].key = key}

\* Caller t calls getFromCache in this step
GetStarts(t) == tasks[t].pc = "idle" /\ tasks'[t].top = "getFromCache"

\* A getFromCache called once a setInCache for its key has returned returns at
\* once a value that was stored
ReadAfterWrite ==
  \A t \in Callers :
    GetStarts(t) /\ SetsCompleted(tasks'[t].calls[1].key) # {}
      => /\ tasks'[t].pc = "done"
         /\ tasks'[t].calls[1].st = "returned"
         /\ \E u \in SetsCompleted(tasks'[t].calls[1].key) :
              tasks'[t].calls[1].val = Some(tasks[u].calls[1].value)

\* No setInCache was called for the key and KV holds nothing for it
NeverSet(key) ==
  /\ key \notin DOMAIN l1
  /\ key \notin DOMAIN kv
  /\ \A u \in Callers : tasks[u].top = "setInCache" => tasks[u].calls[1].key # key

NeverSetIsNull ==
  \A t \in Callers :
    /\ tasks[t].top = "getFromCache"
    /\ tasks[t].pc = "done"
    /\ NeverSet(tasks[t].calls[1].key)
    => tasks[t].calls[1].val = Null

\* C25: getFromCache called right after setInCache(key, value) has completed
\* returns the value stored, with a TTL argument and without one, and
\* getFromCache for a key that was never set returns null.
C25_ReadAfterWrite ==
  /\ [][ReadAfterWrite]_vars
  /\ []NeverSetIsNull

\* The same with no other call of the facade made before the read: the write
\* and the read are the only calls of the isolate
ReadAfterWriteAlone ==
  \A t \in Callers :
    /\ GetStarts(t)
    /\ \E u \in SetsCompleted(tasks'[t].calls[1].key) :
         \A w \in Callers \ {t, u} : tasks[w].pc = "idle"
    => /\ tasks'[t].pc = "done"
       /\ tasks'[t].calls[1].st = "returned"
       /\ \E u \in SetsCompleted(tasks'[t].calls[1].key) :
            tasks'[t].calls[1].val = Some(tasks[u].calls[1].value)

RoundTripWithoutOtherCalls ==
  /\ [][ReadAfterWriteAlone]_vars
  /\ []NeverSetIsNull

----------------------------------------------------------------------------
(* The worker under requests that fail more than one check *)

\* Every method, with and without a route, with no header, a key that does not
\* exist and a valid key, without a version and with a malformed one; and the
\* requests that fail one check
OrderRequests ==
  {Request(m, p, a, v) : m \in {"OPTIONS", "POST", "GET"}, p \in {Null, Some("p9")},
                         a \in {Null, Bearer("k_none"), Bearer("k_good")},
                         v \in {Null, Some(Str_1_0)}}
  \cup {Request("GET", Some(p), Bearer("k_noperm"), Some(Str_1_0)) : p \in {"p1", "p9"}}
  \cup {Request("GET", Some("p1"), Bearer(k), v) : k \in {"k_good", "k_dis", "k_exp"},
                                                    v \in {Null, Some(Str_1_0), Some(Str_2_0_0)}}
  \cup {Request("GET", Some("p2"), Bearer("k_good"), Null)}

ReceiveOrderRequest(t) ==
  /\ CanStart(t)
  /\ Cardinality(InFlight) < MaxInFlight
  /\ \E req \in OrderRequests :
       LET r == HandleRequestCall(tasks[t], req, l1, now, isolate)
       IN /\ tasks' = [tasks EXCEPT ![t] = r.task]
          /\ l1' = r.l1
  /\ UNCHANGED <<clock, kv, d1>>

NextOrder ==
  \/ \E t \in Tasks : ReceiveOrderRequest(t)
  \/ \E t \in Tasks, i \in 1..2 : KvGet(t, i)
  \/ \E t \in Tasks, i \in 1..2 : GetFromCacheResume(t, i)
  \/ \E t \in Tasks, i \in 1..2 : KvPut(t, i)
  \/ \E t \in Tasks, i \in 1..2 : SetInCacheResume(t, i)
  \/ \E t \in Tasks : VerifyApiKeyAfterGet(t)
  \/ \E t \in Tasks : D1SelectApiKey(t)
  \/ \E t \in Tasks : VerifyApiKeyAfterD1(t)
  \/ \E t \in Tasks : VerifyApiKeyAfterSet(t)
  \/ \E t \in Tasks : HandleRequestAfterKey(t)
  \/ \E t \in Tasks : D1SelectSubscription(t)
  \/ \E t \in Tasks : GetPlanInfoResume(t)
  \/ \E t \in Tasks : D1SelectCount(t)
  \/ \E t \in Tasks : CheckUsageLimitResume(t)
  \/ \E t \in Tasks : HandleRequestAfterUsage(t)
  \/ \E t \in Tasks : FetchPromptAfterGet(t)
  \/ \E t \in Tasks : D1SelectPrompt(t)
  \/ \E t \in Tasks : D1SelectVersion(t)
  \/ \E t \in Tasks : FetchPromptAfterD1(t)
  \/ \E t \in Tasks : FetchPromptAfterSet(t)
  \/ \E t \in Tasks : HandleRequestAfterPrompt(t)
  \/ \E t \in Tasks : D1Batch(t)
  \/ \E t \in Tasks : IncrementUsageResume(t)

SpecOrder == Init /\ [][NextOrder]_vars

\* The check that request t fails first, in the order of handleRequest, by the
\* request, the tables and the usage status its check has returned: 1 the
\* preflight (which answers), 2 the method, 3 the route, 4 the Authorization
\* header, 5 the key, 6 the quota, 7 the prompt; 8 when it fails none
FirstFailingCheck(t) ==
  LET req == tasks[t].req
      row == SelectApiKey(apikey, hashApiKey(Val(req.authorization)[2]))
      keyOk == /\ NotNull(row)
               /\ ValidateApiKey(CachedApiKeyOf(Val(row)), <<"prompt", "read">>, now).valid
      parsed == IF Truthy(req.version) THEN parseVersion(Val(req.version)) ELSE Null
      promptRow == SelectPrompt(prompt, Val(req.promptId))
      promptOk == /\ (Truthy(req.version) => NotNull(parsed))
                  /\ NotNull(promptRow)
                  /\ Val(promptRow).organization_id = Val(row).organization_id
                  /\ Null \notin SelectVersion(prompt_version, Val(req.promptId), parsed)
  IN IF req.method = "OPTIONS" THEN 1
     ELSE IF req.method # "GET" THEN 2
     ELSE IF IsNull(req.promptId) THEN 3
     ELSE IF IsNull(req.authorization) \/ Val(req.authorization)[1] # "Bearer" THEN 4
     ELSE IF ~keyOk THEN 5
     ELSE IF ~Val(tasks[t].usageStatus).allowed THEN 6
     ELSE IF ~promptOk THEN 7
     ELSE 8

\* The statuses with which a check answers
StatusesOfCheck(t, check) ==
  CASE check = 1 -> {204}
    [] check = 2 -> {405}
    [] check = 3 -> {404}
    [] check = 4 -> {401}
    [] check = 5 ->
         LET row == SelectApiKey(apikey, hashApiKey(Val(tasks[t].req.authorization)[2]))
         IN IF NotNull(row) /\ Val(row).enabled = 1 /\ IsNull(Val(row).expires_at)
              THEN {403} ELSE {401}
    [] check = 6 -> {429}
    [] check = 7 ->
         IF Truthy(tasks[t].req.version) /\ IsNull(parseVersion(Val(tasks[t].req.version)))
           THEN {400} ELSE {404}
    [] OTHER -> {200}

\* The steps of request t that come after the check: the fields of a later
\* step are not among its locals
RanNoLaterStep(t, check) ==
  LET has(f) == f \in DOMAIN tasks[t]
  IN /\ check <= 4 => ~has("calls") /\ ~has("keySt")
     /\ check <= 5 => ~has("countSt") /\ ~has("usageStatus")
     /\ check <= 6 => ~has("promptSt") /\ ~has("promptResult")
     /\ check <= 7 => tasks[t].scheduled = 0 /\ ~has("incOrg")
     /\ check = 7 /\ StatusesOfCheck(t, 7) = {400}
          => tasks[t].calls = <<>> /\ tasks[t].promptSt = "none"

----------------------------------------------------------------------------
(* fetchPrompt over version tables and version strings *)

Str_01_0_0 == <<"0", "1", ".", "0", ".", "0">>
Str_Empty == <<>>

\* A row of prompt_version of p1: a draft has no published_at
VersionRow(major, minor, patch, published) ==
  [prompt_id |-> "p1", major |-> major, minor |-> minor, patch |-> patch,
   system_message |-> <<"s", major, minor, patch>>,
   published_at |-> IF published THEN Some(1) ELSE Null]

\* 1.0.0, 1.1.0 and 1.1.1 published, 2.0.0 not published yet, and a draft
\* without numbers
VersionRowsOfP1 ==
  {VersionRow(Some(1), Some(0), Some(0), TRUE),
   VersionRow(Some(1), Some(1), Some(0), TRUE),
   VersionRow(Some(1), Some(1), Some(1), TRUE),
   VersionRow(Some(2), Some(0), Some(0), FALSE),
   VersionRow(Null, Null, Null, FALSE)}

\* No version, the empty string, a version, the same with a leading zero, a
\* version that is not published, and a string that is no semver
VersionStrings ==
  {Null, Some(Str_Empty), Some(Str_1_0_0), Some(Str_01_0_0), Some(Str_2_0_0), Some(Str_1_0)}

\* A caller of o1 calls fetchPrompt(env, 'p1', 'o1', version)
VersionFetchPrompt(t) ==
  /\ CanStartSeq(t)
  /\ \E version \in VersionStrings :
       LET r == FetchPromptCall([top |-> "fetchPrompt"], "p1", "o1", version,
                                l1, now, isolate)
       IN /\ tasks' = [tasks EXCEPT ![t] = r.task]
          /\ l1' = r.l1
  /\ UNCHANGED <<clock, kv, d1>>

InitVersion ==
  /\ epoch = 0
  /\ now = epoch
  /\ isolate = 0
  /\ l1 = EmptyMap
  /\ kv = EmptyMap
  /\ usage = EmptyMap
  /\ usage0 = usage
  /\ subscription = EmptyMap
  /\ apikey = EmptyMap
  /\ prompt = [id \in {"p1"} |-> LookupPromptRow(id)]
  /\ prompt_version \in SUBSET VersionRowsOfP1
  /\ tasks = [t \in Callers |-> IdleTask]

NextVersion ==
  \/ \E t \in Callers : VersionFetchPrompt(t)
  \/ \E t \in Callers, i \in 1..2 : KvGet(t, i)
  \/ \E t \in Callers, i \in 1..2 : GetFromCacheResume(t, i)
  \/ \E t \in Callers, i \in 1..2 : KvPut(t, i)
  \/ \E t \in Callers, i \in 1..2 : SetInCacheResume(t, i)
  \/ \E t \in Callers : FetchPromptAfterGet(t)
  \/ \E t \in Callers : D1SelectPrompt(t)
  \/ \E t \in Callers : D1SelectVersion(t)
  \/ \E t \in Callers : FetchPromptAfterD1(t)
  \/ \E t \in Callers : FetchPromptAfterSet(t)
  \/ RestartStale

SpecVersion == InitVersion /\ [][NextVersion]_vars

----------------------------------------------------------------------------
(* Claims about versions *)

VersionCalls == {t \in Callers : tasks[t].top = "fetchPrompt" /\ tasks[t].pc = "done"}

\* C27: every successful fetchPrompt call made with a version parameter
\* returns the version string it was called with, in every cache state.
C27_ReturnsRequestedVersion ==
  \A t \in VersionCalls :
    NotNull(tasks[t].version) /\ Val(tasks[t].promptResult).ok
      => Val(tasks[t].promptResult).version = Val(tasks[t].version)

\* The published rows of p1, and the place of a row in the order of
\* (major, minor, patch), each number below 10
PublishedOfP1 == {r \in prompt_version : r.prompt_id = "p1" /\ NotNull(r.published_at)}

TripleRank(r) == (Val(r.major) * 100) + (Val(r.minor) * 10) + Val(r.patch)

\* C28: a fetchPrompt call with no version that reads the datastore returns
\* the published version with the greatest (major, minor, patch), never a
\* draft; with no published version it returns VERSION_NOT_FOUND.
C28_LatestIsGreatestPublished ==
  \A t \in VersionCalls :
    IsNull(tasks[t].version) /\ tasks[t].versionSt = "ready"
      => IF PublishedOfP1 = {}
           THEN Val(tasks[t].promptResult) = [ok |-> FALSE, code |-> "VERSION_NOT_FOUND"]
           ELSE \E r \in PublishedOfP1 :
                  /\ \A q \in PublishedOfP1 : TripleRank(r) >= TripleRank(q)
                  /\ Val(tasks[t].promptResult).ok
                  /\ Val(tasks[t].promptResult).version =
                       formatVersion(r.major, r.minor, r.patch)
                  /\ Val(tasks[t].promptResult).systemMessage = r.system_message

\* With 1.1.1, 1.1.0 and 1.0.0 published and 2.0.0 and a draft not, a call
\* without a version has read the datastore and returned 1.1.1
C28_Witness ==
  \E t \in VersionCalls :
    /\ prompt_version = VersionRowsOfP1
    /\ IsNull(tasks[t].version)
    /\ tasks[t].versionSt = "ready"
    /\ Val(tasks[t].promptResult).ok
    /\ Val(tasks[t].promptResult).version = <<"1", ".", "1", ".", "1">>

\* Only drafts are there, and a call without a version returned VERSION_NOT_FOUND
C28_WitnessNone ==
  \E t \in VersionCalls :
    /\ prompt_version # {}
    /\ PublishedOfP1 = {}
    /\ IsNull(tasks[t].version)
    /\ Val(tasks[t].promptResult).code = "VERSION_NOT_FOUND"

\* C30: fetchPrompt called with a version string that is not of the form
\* digits.digits.digits returns BAD_REQUEST before any cache read, cache write
\* or datastore query.
C30_MalformedIsBadRequest ==
  \A t \in Callers :
    /\ tasks[t].top = "fetchPrompt"
    /\ NotNull(tasks[t].version)
    /\ IsNull(parseVersion(Val(tasks[t].version)))
    => /\ tasks[t].pc = "done"
       /\ Val(tasks[t].promptResult) = [ok |-> FALSE, code |-> "BAD_REQUEST"]
       /\ tasks[t].calls = <<>>
       /\ tasks[t].promptSt = "none"
       /\ tasks[t].versionSt = "none"

----------------------------------------------------------------------------
(* fetchPrompts while the dashboard publishes versions *)

\* The prompts of the listing: two of o1 and one of o2
ListPromptRow(id) ==
  [id |-> id, organization_id |-> IF id = "p3" THEN "o2" ELSE "o1",
   name |-> <<"n", id>>, deleted_at |-> Null]

ListPromptIds == {"p1", "p2", "p3"}

\* The place of a prompt id in the collation of ORDER BY pv.prompt_id
PromptIdOrder(id) == CASE id = "p1" -> 1 [] id = "p2" -> 2 [] OTHER -> 3

ListVersionRow(id, major, minor, patch) ==
  [prompt_id |-> id, major |-> major, minor |-> minor, patch |-> patch,
   system_message |-> <<"s", id, major, minor, patch>>,
   user_message |-> <<"u", id, major, minor, patch>>,
   published_at |-> Null]

\* 1.2.0 and 1.10.0 of p1 and a draft of it, 1.0.0 of p2 and 1.0.0 of p3
ListNumberedRows ==
  {ListVersionRow("p1", Some(1), Some(2), Some(0)),
   ListVersionRow("p1", Some(1), Some(10), Some(0)),
   ListVersionRow("p2", Some(1), Some(0), Some(0)),
   ListVersionRow("p3", Some(1), Some(0), Some(0))}

ListDraftRow == ListVersionRow("p1", Null, Null, Null)

PublishedRow(r) == [r EXCEPT !.published_at = Some(1)]

\* The sequences that hold each element of S once
SeqsOf(S) ==
  {s \in [1..Cardinality(S) -> S] : \A i, j \in 1..Cardinality(S) : i # j => s[i] # s[j]}

\* The first query of fetchPrompts: the prompts of the organization that are
\* not deleted, each joined with its greatest published version
SelectPromptsWithLatest(prompts, versions, organizationId) ==
  {[id |-> prompts[id].id, name |-> prompts[id].name,
    major |-> Val(pv).major, minor |-> Val(pv).minor, patch |-> Val(pv).patch,
    system_message |-> Val(pv).system_message, user_message |-> Val(pv).user_message] :
     <<id, pv>> \in {x \in (DOMAIN prompts) \X {Some(r) : r \in versions} :
                      /\ prompts[x[1]].organization_id = organizationId
                      /\ IsNull(prompts[x[1]].deleted_at)
                      /\ x[2] \in SelectVersion(versions, x[1], Null)}}

\* Mutant: the second query sorts the versions in descending order
AscendingBefore_Descending(a, b) ==
  \/ PromptIdOrder(a.prompt_id) < PromptIdOrder(b.prompt_id)
  \/ /\ a.prompt_id = b.prompt_id
     /\ \/ ColumnOrder(a.major) > ColumnOrder(b.major)
        \/ /\ ColumnOrder(a.major) = ColumnOrder(b.major)
           /\ \/ ColumnOrder(a.minor) > ColumnOrder(b.minor)
              \/ /\ ColumnOrder(a.minor) = ColumnOrder(b.minor)
                 /\ ColumnOrder(a.patch) >= ColumnOrder(b.patch)

\* ORDER BY pv.prompt_id, pv.major ASC, pv.minor ASC, pv.patch ASC: row a comes
\* before row b, or ties with it
AscendingBefore(a, b) ==
  \/ PromptIdOrder(a.prompt_id) < PromptIdOrder(b.prompt_id)
  \/ /\ a.prompt_id = b.prompt_id
     /\ \/ ColumnOrder(a.major) < ColumnOrder(b.major)
        \/ /\ ColumnOrder(a.major) = ColumnOrder(b.major)
           /\ \/ ColumnOrder(a.minor) < ColumnOrder(b.minor)
              \/ /\ ColumnOrder(a.minor) = ColumnOrder(b.minor)
                 /\ ColumnOrder(a.patch) <= ColumnOrder(b.patch)

\* The second query of fetchPrompts: the published versions of the prompts of
\* the organization that are not deleted, in the order of the query
SelectPublishedVersions(prompts, versions, organizationId) ==
  LET rows == {r \in versions :
                 /\ r.prompt_id \in DOMAIN prompts
                 /\ prompts[r.prompt_id].organization_id = organizationId
                 /\ IsNull(prompts[r.prompt_id].deleted_at)
                 /\ NotNull(r.published_at)}
  IN {s \in SeqsOf(rows) : \A i, j \in 1..Len(s) : i < j => AscendingBefore(s[i], s[j])}

\* results.results.map(row => ({promptId, promptName, version, ...}))
PromptResponseOf(row) ==
  [promptId |-> row.id, promptName |-> row.name,
   version |-> formatVersion(row.major, row.minor, row.patch),
   systemMessage |-> row.system_message, userMessage |-> row.user_message]

\* The loop over versionsResult.results: the entries of one prompt in the order
\* in which the rows came
RECURSIVE VersionsByPrompt(_, _)
VersionsByPrompt(rows, promptId) ==
  IF rows = <<>> THEN <<>>
  ELSE LET row == Head(rows)
           rest == VersionsByPrompt(Tail(rows), promptId)
       IN IF row.prompt_id = promptId
            THEN <<[version |-> formatVersion(row.major, row.minor, row.patch),
                    userMessage |-> row.user_message]>> \o rest
            ELSE rest

\* A caller calls fetchPrompts(env, organizationId, includeVersions); the call
\* stops at its first query
CallFetchPrompts(t) ==
  /\ CanStartSeq(t)
  /\ \E organizationId \in {"o1", "o2"}, includeVersions \in BOOLEAN :
       tasks' = [tasks EXCEPT ![t] =
                   [top |-> "fetchPrompts", pc |-> "fps_d1_prompts",
                    organizationId |-> organizationId,
                    includeVersions |-> includeVersions]]
  /\ UNCHANGED <<clock, l1, kv, d1>>

\* The datastore runs the first query; its rows come in any order
D1SelectPrompts(t) ==
  /\ tasks[t].pc = "fps_d1_prompts"
  /\ \E results \in SeqsOf(SelectPromptsWithLatest(prompt, prompt_version,
                                                   tasks[t].organizationId)) :
       tasks' = [tasks EXCEPT ![t] =
                   With(tasks[t], [pc |-> "fps_prompts", results |-> results,
                                   versionsAtFirst |-> prompt_version])]
  /\ UNCHANGED <<clock, l1, kv, d1>>

\* fetchPrompts after its first await: the prompts are built, and returned when
\* the versions were not asked for; else the second query is issued
FetchPromptsAfterPrompts(t) ==
  /\ tasks[t].pc = "fps_prompts"
  /\ LET prompts == [i \in 1..Len(tasks[t].results) |->
                       PromptResponseOf(tasks[t].results[i])]
     IN tasks' = [tasks EXCEPT ![t] =
                    IF ~tasks[t].includeVersions
                      THEN With(tasks[t], [pc |-> "done", prompts |-> prompts,
                                           result |-> prompts])
                      ELSE With(tasks[t], [pc |-> "fps_d1_versions", prompts |-> prompts])]
  /\ UNCHANGED <<clock, l1, kv, d1>>

\* The datastore runs the second query
D1SelectVersions(t) ==
  /\ tasks[t].pc = "fps_d1_versions"
  /\ \E versionsResult \in SelectPublishedVersions(prompt, prompt_version,
                                                   tasks[t].organizationId) :
       tasks' = [tasks EXCEPT ![t] =
                   With(tasks[t], [pc |-> "fps_versions",
                                   versionsResult |-> versionsResult,
                                   versionsAtSecond |-> prompt_version])]
  /\ UNCHANGED <<clock, l1, kv, d1>>

\* fetchPrompts after its second await: the versions are grouped by prompt and
\* attached to the prompts
FetchPromptsAfterVersions(t) ==
  /\ tasks[t].pc = "fps_versions"
  /\ LET prompts == tasks[t].prompts
         result == [i \in 1..Len(prompts) |->
                      With(prompts[i],
                           [publishedVersions |->
                              VersionsByPrompt(tasks[t].versionsResult,
                                               prompts[i].promptId)])]
     IN tasks' = [tasks EXCEPT ![t] = With(tasks[t], [pc |-> "done", result |-> result])]
  /\ UNCHANGED <<clock, l1, kv, d1>>

\* The dashboard publishes a version that has its numbers
PublishListedVersion ==
  /\ \E r \in prompt_version :
       /\ IsNull(r.published_at)
       /\ NotNull(r.major)
       /\ prompt_version' = (prompt_version \ {r}) \cup {PublishedRow(r)}
  /\ UNCHANGED <<clock, l1, kv, usage, usage0, subscription, apikey, prompt, tasks>>

InitList ==
  /\ epoch = 0
  /\ now = epoch
  /\ isolate = 0
  /\ l1 = EmptyMap
  /\ kv = EmptyMap
  /\ usage = EmptyMap
  /\ usage0 = usage
  /\ subscription = EmptyMap
  /\ apikey = EmptyMap
  /\ prompt = [id \in ListPromptIds |-> ListPromptRow(id)]
  /\ \E published \in SUBSET ListNumberedRows :
       prompt_version = {PublishedRow(r) : r \in published}
                          \cup (ListNumberedRows \ published) \cup {ListDraftRow}
  /\ tasks = [t \in Callers |-> IdleTask]

NextList ==
  \/ \E t \in Callers : CallFetchPrompts(t)
  \/ \E t \in Callers : D1SelectPrompts(t)
  \/ \E t \in Callers : FetchPromptsAfterPrompts(t)
  \/ \E t \in Callers : D1SelectVersions(t)
  \/ \E t \in Callers : FetchPromptsAfterVersions(t)
  \/ PublishListedVersion

SpecList == InitList /\ [][NextList]_vars

----------------------------------------------------------------------------
(* Claims about the listing *)

ListCallsWithVersions ==
  {t \in Callers : /\ tasks[t].top = "fetchPrompts" /\ tasks[t].pc = "done"
                   /\ tasks[t].includeVersions}

\* The numbers of a version string of the listing, compared as a triple
VersionStringBefore(a, b) ==
  LET x == Val(parseVersion(a))
      y == Val(parseVersion(b))
  IN \/ x.major < y.major
     \/ x.major = y.major /\ x.minor < y.minor
     \/ x.major = y.major /\ x.minor = y.minor /\ x.patch < y.patch

----------------------------------------------------------------------------
(* Claims about the keys of the version cache *)

\* The keys of specific versions that a tier holds
SpecificVersionKeys(tier) == {key \in DOMAIN tier : IsSpecificVersionKey(key)}

\* Two keys of specific versions name the same (promptId, major, minor, patch)
SameLogicalVersion(a, b) ==
  /\ a[2] = b[2]
  /\ NotNull(parseVersion(a[3]))
  /\ parseVersion(a[3]) = parseVersion(b[3])

\* C31: the version cache key is a function of the logical entity alone: two
\* specific-version requests that resolve to the same (promptId, major, minor,
\* patch) use the same key, so no tier holds one published version under two
\* different keys.
C31_OneKeyPerVersion ==
  /\ \A t, u \in Callers :
       /\ tasks[t].top = "fetchPrompt" /\ tasks[u].top = "fetchPrompt"
       /\ Truthy(tasks[t].version) /\ Truthy(tasks[u].version)
       /\ NotNull(parseVersion(Val(tasks[t].version)))
       /\ parseVersion(Val(tasks[t].version)) = parseVersion(Val(tasks[u].version))
       => VersionCacheKey("p1", tasks[t].version) = VersionCacheKey("p1", tasks[u].version)
  /\ \A tier \in {l1, kv} :
       \A a, b \in SpecificVersionKeys(tier) : SameLogicalVersion(a, b) => a = b

----------------------------------------------------------------------------
(* The reset of the quota on the Gregorian calendar of Date *)

CalendarFirstYear == 2023
CalendarNumYears == 3

CalendarYears == CalendarFirstYear..(CalendarFirstYear + CalendarNumYears - 1)

IsLeapYear(year) == (year % 4 = 0 /\ year % 100 # 0) \/ year % 400 = 0

DaysInMonth(year, month) ==
  CASE month = 1 -> IF IsLeapYear(year) THEN 29 ELSE 28
    [] month \in {3, 5, 8, 10} -> 30
    [] OTHER -> 31

\* The leap years up to year
LeapYearsUpTo(year) == (year \div 4) - (year \div 100) + (year \div 400)

\* The days from 1 January 1970 to 1 January of year
DaysBeforeYear(year) ==
  (365 * (year - 1970)) + (LeapYearsUpTo(year - 1) - LeapYearsUpTo(1969))

RECURSIVE DaysBeforeMonth(_, _)
DaysBeforeMonth(year, month) ==
  IF month = 0 THEN 0
  ELSE DaysBeforeMonth(year, month - 1) + DaysInMonth(year, month - 1)

\* Date.UTC(year, month, day) in seconds: a month above 11 runs over into the
\* years that follow
GregorianDateUTC(year, month, day) ==
  LET y == year + (month \div MonthsPerYear)
      m == month % MonthsPerYear
  IN (DaysBeforeYear(y) + DaysBeforeMonth(y, m) + (day - 1)) * SecondsPerDay

\* now.getUTCFullYear() and now.getUTCMonth() of the instant t, in seconds
GregorianFullYear(t) ==
  LET guess == 1970 + ((t \div SecondsPerDay) \div 365)
  IN CHOOSE y \in (guess - 1)..guess :
       GregorianDateUTC(y, 0, 1) <= t /\ t < GregorianDateUTC(y + 1, 0, 1)

GregorianMonth(t) ==
  CHOOSE m \in 0..11 :
    /\ GregorianDateUTC(GregorianFullYear(t), m, 1) <= t
    /\ t < GregorianDateUTC(GregorianFullYear(t), m + 1, 1)

\* toISOString of an instant of whole seconds: year, month, day, hour, minute
\* and second
ToISOString(t) ==
  LET y == GregorianFullYear(t)
      m == GregorianMonth(t)
      inMonth == t - GregorianDateUTC(y, m, 1)
      inDay == inMonth % SecondsPerDay
  IN <<y, m + 1, (inMonth \div SecondsPerDay) + 1,
       inDay \div 3600, (inDay % 3600) \div 60, inDay % 60>>

\* Mutant: the month after December is taken in the year of now
NextMonthStart_SameYear(t) ==
  GregorianDateUTC(GregorianFullYear(t), (GregorianMonth(t) + 1) % MonthsPerYear, 1)

\* new Date(Date.UTC(year, month + 1, 1)) of getNextMonthReset and of
\* getNextMonthResetUnix
NextMonthStart(t) ==
  GregorianDateUTC(GregorianFullYear(t), GregorianMonth(t) + 1, 1)

\* getNextMonthReset: the ISO string of the start of the next month
GregorianNextMonthReset(t) == ToISOString(NextMonthStart(t))

\* getNextMonthResetUnix: Math.floor(getTime() / 1000), in seconds
GregorianNextMonthResetUnix(t) == NextMonthStart(t)

\* The dates of the calendar years: the first and the last day of each month,
\* at their first and last second
CalendarDates ==
  {<<y, m, d, s>> \in CalendarYears \X (0..11) \X (1..31) \X {0, SecondsPerDay - 1} :
     d \in {1, DaysInMonth(y, m)}}

CalendarInstant(date) == GregorianDateUTC(date[1], date[2], date[3]) + date[4]

\* buildUsageStatus and rateLimitHeaders ask for the reset at the instant now;
\* the call remembers the date that now is
CallGetNextMonthReset(t) ==
  /\ CanStartSeq(t)
  /\ \E date \in CalendarDates :
       /\ CalendarInstant(date) = now
       /\ tasks' = [tasks EXCEPT ![t] =
                      [top |-> "getNextMonthReset", pc |-> "done", date |-> date, at |-> now,
                       resetAt |-> GregorianNextMonthReset(now),
                       resetUnix |-> GregorianNextMonthResetUnix(now)]]
  /\ UNCHANGED <<clock, l1, kv, d1>>

\* The clock moves on to another of the dates, before the reset is asked for
TickCalendar ==
  /\ \A t \in Callers : tasks[t].pc = "idle"
  /\ \E date \in CalendarDates :
       /\ CalendarInstant(date) > now
       /\ CalendarInstant(date) - now <= 32 * SecondsPerDay
       /\ now' = CalendarInstant(date)
       /\ epoch' = now'
  /\ UNCHANGED <<isolate, l1, kv, d1, tasks>>

\* The clock starts with the first of the years
InitCalendar ==
  /\ now = CalendarInstant(<<CalendarFirstYear, 0, 1, 0>>)
  /\ epoch = now
  /\ isolate = 0
  /\ l1 = EmptyMap
  /\ kv = EmptyMap
  /\ usage = EmptyMap
  /\ usage0 = usage
  /\ subscription = EmptyMap
  /\ apikey = EmptyMap
  /\ prompt = EmptyMap
  /\ prompt_version = {}
  /\ tasks = [t \in Callers |-> IdleTask]

NextCalendar ==
  \/ \E t \in Callers : CallGetNextMonthReset(t)
  \/ TickCalendar

SpecCalendar == InitCalendar /\ [][NextCalendar]_vars

----------------------------------------------------------------------------
(* Claims about the reset *)

ResetCalls == {t \in Callers : tasks[t].top = "getNextMonthReset"}

\* C32: for every current UTC date, resetAt and the X-RateLimit-Reset value
\* are the first instant of the next calendar month in UTC: midnight of day 1
\* of the month after the month of now, later than now, with every instant
\* before it and after now in the month of now; for a date in December it is
\* 1 January of the following year.
C32_ResetIsNextMonthStart ==
  \A t \in ResetCalls :
    LET date == tasks[t].date
        year == IF date[2] = 11 THEN date[1] + 1 ELSE date[1]
        month == IF date[2] = 11 THEN 1 ELSE date[2] + 2
    IN /\ tasks[t].resetAt = <<year, month, 1, 0, 0, 0>>
       /\ ToISOString(tasks[t].resetUnix) = tasks[t].resetAt
       /\ tasks[t].resetUnix > tasks[t].at
       /\ tasks[t].resetUnix - tasks[t].at =
            ((DaysInMonth(date[1], date[2]) - date[3]) * SecondsPerDay)
              + (SecondsPerDay - date[4])

\* The reset was asked for in the last second of a December
C32_Witness ==
  \E t \in ResetCalls :
    /\ tasks[t].date[2] = 11
    /\ tasks[t].date[3] = 31
    /\ tasks[t].date[4] = SecondsPerDay - 1
    /\ tasks[t].resetAt = <<tasks[t].date[1] + 1, 1, 1, 0, 0, 0>>
    /\ tasks[t].resetUnix = tasks[t].at + 1

\* The reset was asked for on 29 February
C32_WitnessLeap ==
  \E t \in ResetCalls :
    /\ tasks[t].date[2] = 1
    /\ tasks[t].date[3] = 29
    /\ tasks[t].resetAt[2] = 3

----------------------------------------------------------------------------
(* Claims about the snapshot and the durable count *)

\* The usage snapshots that memoryCache holds and has not expired
LiveUsageSnapshots ==
  {key \in DOMAIN l1 : key[1] = "usage" /\ MemoryCacheLive(l1, key, now)}

\* The durable count of an organization in a period: 0 without a row
DurableCount(org, period) ==
  IF <<org, period>> \in DOMAIN usage THEN usage[<<org, period>>] ELSE 0

\* C33: under every interleaving of checkUsageLimit and incrementUsage calls in
\* one process, the count of the Local-Tier usage snapshot of a (tenant,
\* period) is never greater than the durable count of that (tenant, period).
C33_SnapshotNeverAboveDurable ==
  \A key \in LiveUsageSnapshots :
    l1[key].value.count <= DurableCount(key[2], key[3])

----------------------------------------------------------------------------
(* Claims about the quota under concurrent requests *)

\* The rows of api_usage of a calendar month
MonthlyRows == {k \in DOMAIN usage : Len(k[2]) = 2}

\* C34: for a tenant with a finite limit L, under every interleaving of
\* concurrent requests the durable usage count of a period never exceeds L:
\* no request is served and counted once the count has reached L.
C34_CountNeverAboveLimit ==
  \A k \in MonthlyRows :
    LET planInfo == PlanInfoOf(SelectSubscription(subscription, k[1]))
    IN NotNull(planInfo.limit) => usage[k] <= Val(planInfo.limit)

\* The requests of tenants with a finite limit for which checkUsageLimit has
\* returned
LimitedChecked ==
  {t \in UsageChecked : NotNull(Val(tasks[t].planInfo).limit)}

\* C34, amended: for a tenant with a finite limit L, a request is served and
\* counted only if its checkUsageLimit reported a count below L, a request
\* whose check reported L or more is answered 429 and never counted, and the
\* durable count of a period grows by no more than the requests so admitted;
\* the durable count itself passes L when requests are admitted before the
\* increments of the ones before them are stored.
C34_CountedOnlyWhenAdmitted ==
  /\ \A t \in LimitedChecked :
       LET usageStatus == Val(tasks[t].usageStatus)
           limit == Val(Val(tasks[t].planInfo).limit)
       IN /\ tasks[t].scheduled = 1 => usageStatus.allowed /\ usageStatus.used < limit
          /\ usageStatus.used >= limit =>
               /\ tasks[t].scheduled = 0
               /\ "batchSt" \notin DOMAIN tasks[t]
               /\ (t \in Answered => Val(tasks[t].response).status = 429)
  /\ \A k \in MonthlyRows :
       usage[k] - RowCount(usage0, k)
         <= Cardinality({t \in UsageChecked :
                           /\ tasks[t].scheduled = 1
                           /\ tasks[t].incOrg = k[1]
                           /\ tasks[t].incPeriod = k[2]})

\* Two requests of a tenant at L - 1 were both admitted with used = L - 1 and
\* both counted: the durable count is L + 1
C34_Witness ==
  \E t, u \in LimitedChecked :
    /\ t # u
    /\ tasks[t].scheduled = 1 /\ tasks[u].scheduled = 1
    /\ Val(tasks[t].usageStatus).used = FREE_LIMIT - 1
    /\ Val(tasks[u].usageStatus).used = FREE_LIMIT - 1
    /\ tasks[t].incPeriod = tasks[u].incPeriod
    /\ usage[<<tasks[t].incOrg, tasks[t].incPeriod>>] = FREE_LIMIT + 1

\* A request whose check reported the limit as reached was answered 429
C34_WitnessRefused ==
  \E t \in LimitedChecked \cap Answered :
    /\ Val(tasks[t].usageStatus).used >= FREE_LIMIT
    /\ Val(tasks[t].response).status = 429

\* ---------------------------------------------------------------------------
\* Claims about the expiry of a key that is served from the cache
\* ---------------------------------------------------------------------------

\* The calls of verifyApiKey that have returned
VerifiedCalls ==
  {t \in Tasks : tasks[t].top = "verifyApiKey" /\ tasks[t].pc = "done"}

DeleteTickLen == 200
MaxDeleteElapsed == 800

\* An entry of prompt:<id> that a read would still return, in the Local Tier
\* of this isolate or in KV
PromptMetadataCached(promptId) ==
  \/ MemoryCacheLive(l1, PromptCacheKey(promptId), now)
  \/ NotNull(KvRead(kv, PromptCacheKey(promptId), now))

\* A caller calls fetchPrompt(env, 'p1', 'o1', version), without a version or
\* for 1.0.0. The call remembers whether the prompt was deleted and whether
\* its metadata was cached when it started.
DeleteFetchPrompt(t) ==
  /\ CanStartSeq(t)
  /\ \E version \in {Null, Some(Str_1_0_0)} :
       LET changed == NotNull(prompt["p1"].deleted_at)
           start == With(StaleStart("fetchPrompt", changed),
                         [metadataCached |-> PromptMetadataCached("p1")])
           r == FetchPromptCall(start, "p1", "o1", version, l1, now, isolate)
       IN /\ tasks' = [tasks EXCEPT ![t] = r.task]
          /\ l1' = r.l1
  /\ UNCHANGED <<clock, kv, d1>>

\* The dashboard soft-deletes p1: UPDATE prompt SET deleted_at = now. It can
\* do so while a call is in flight. The column holds a time after the start.
SoftDeletePrompt ==
  /\ IsNull(prompt["p1"].deleted_at)
  /\ prompt' = [prompt EXCEPT !["p1"].deleted_at = Some(now + 1)]
  /\ UNCHANGED <<clock, l1, kv, usage, usage0, subscription, apikey, prompt_version, tasks>>

TickDelete ==
  /\ NoCallInFlight
  /\ Advance(DeleteTickLen, MaxDeleteElapsed)

InitDelete ==
  /\ epoch = 0
  /\ now = epoch
  /\ isolate = 0
  /\ l1 = EmptyMap
  /\ kv = EmptyMap
  /\ usage = EmptyMap
  /\ usage0 = usage
  /\ subscription = EmptyMap
  /\ apikey = EmptyMap
  /\ prompt = [id \in {"p1"} |-> LookupPromptRow(id)]
  /\ prompt_version = {LookupVersionRow("p1", 0)}
  /\ tasks = [t \in Callers |-> IdleTask]

NextDelete ==
  \/ \E t \in Callers : DeleteFetchPrompt(t)
  \/ \E t \in Callers, i \in 1..2 : KvGet(t, i)
  \/ \E t \in Callers, i \in 1..2 : GetFromCacheResume(t, i)
  \/ \E t \in Callers, i \in 1..2 : KvPut(t, i)
  \/ \E t \in Callers, i \in 1..2 : SetInCacheResume(t, i)
  \/ \E t \in Callers : FetchPromptAfterGet(t)
  \/ \E t \in Callers : D1SelectPrompt(t)
  \/ \E t \in Callers : D1SelectVersion(t)
  \/ \E t \in Callers : FetchPromptAfterD1(t)
  \/ \E t \in Callers : FetchPromptAfterSet(t)
  \/ SoftDeletePrompt
  \/ TickDelete
  \/ RestartStale

SpecDelete == InitDelete /\ [][NextDelete]_vars

\* C36: a fetchPrompt call that starts when the prompt is soft-deleted and no
\* entry of its metadata is left in the cache returns NOT_FOUND, whether it
\* asks for the latest version or for a specific one whose content is cached
C36_DeletedIsNotFound ==
  \A t \in StaleCalls("fetchPrompt") :
    tasks[t].changed /\ ~tasks[t].metadataCached
      => Val(tasks[t].promptResult) = [ok |-> FALSE, code |-> "NOT_FOUND"]

\* Such a call for 1.0.0 read the content of the version from the cache, where
\* KV still holds it without an expiration, and returned NOT_FOUND
C36_Witness ==
  \E t \in StaleCalls("fetchPrompt") :
    /\ tasks[t].changed /\ ~tasks[t].metadataCached
    /\ tasks[t].version = Some(Str_1_0_0)
    /\ Len(tasks[t].calls) = 2
    /\ tasks[t].calls[2].op = "get"
    /\ NotNull(tasks[t].calls[2].val)
    /\ VersionCacheKey("p1", Some(Str_1_0_0)) \in DOMAIN kv
    /\ IsNull(kv[VersionCacheKey("p1", Some(Str_1_0_0))].expiration)
    /\ Val(tasks[t].promptResult) = [ok |-> FALSE, code |-> "NOT_FOUND"]

\* A call that started after the deletion was still served, from metadata
\* cached before
C36_WitnessServed ==
  \E t \in StaleCalls("fetchPrompt") :
    /\ tasks[t].changed /\ tasks[t].metadataCached
    /\ Val(tasks[t].promptResult).ok

\* ---------------------------------------------------------------------------
\* The usage accounter across the change of the calendar month
\* ---------------------------------------------------------------------------

\* The clock starts this many seconds before a month ends, so that a snapshot
\* taken in the old month is still live at the first tick of the new one
RolloverLead == 20

InitRollover ==
  /\ epoch = DaysPerMonth * SecondsPerDay - RolloverLead
  /\ now = epoch
  /\ isolate = 0
  /\ l1 = EmptyMap
  /\ kv = EmptyMap
  /\ apikey = EmptyMap
  /\ prompt = EmptyMap
  /\ prompt_version = {}
  /\ subscription \in SubscriptionRows
  /\ usage \in InitUsageTables(subscription, epoch)
  /\ usage0 = usage
  /\ tasks = [t \in Callers |-> IdleTask]

SpecRollover == InitRollover /\ [][NextSeq]_vars

\* The checks that have returned and were made in a period after the one of
\* the start
NewPeriodChecks ==
  {t \in Callers : /\ tasks[t].top = "checkUsageLimit"
                   /\ tasks[t].pc = "done"
                   /\ tasks[t].period # getCurrentPeriod(epoch)}

\* An increment of the org in the period was stored before the call started
IncrementedBefore(t, org, period) ==
  \E u \in tasks[t].after :
    /\ tasks[u].top = "incrementUsage"
    /\ tasks[u].incOrg = org
    /\ tasks[u].incPeriod = period
    /\ tasks[u].batchSt = "ok"

\* A step of a checkUsageLimit call
CheckUsageLimitStep ==
  \E t \in Callers : tasks[t].top = "checkUsageLimit" /\ tasks'[t] # tasks[t]

\* C37: a checkUsageLimit in the new month reports used = 0 for a tenant with
\* no increment in the new month, whatever its count and snapshot of the month
\* before were, and no step of a check changes a durable count
C37_NewPeriodStartsAtZero ==
  /\ [](\A t \in NewPeriodChecks :
          ~IncrementedBefore(t, tasks[t].org, tasks[t].period)
            => Val(tasks[t].usageStatus).used = 0)
  /\ [][CheckUsageLimitStep => usage' = usage]_vars

\* A check in the new month has reported used = 0 while the Local Tier still
\* holds a live snapshot of the month before with a count above 0, and the
\* row of the month before holds what it held
C37_Witness ==
  \E t \in NewPeriodChecks :
    LET old == getCurrentPeriod(epoch)
        key == UsageKey(tasks[t].org, old)
    IN /\ Val(tasks[t].usageStatus).used = 0
       /\ MemoryCacheLive(l1, key, now)
       /\ l1[key].value.count > 0
       /\ <<tasks[t].org, old>> \in DOMAIN usage
       /\ usage[<<tasks[t].org, old>>] > 0
       /\ <<tasks[t].org, tasks[t].period>> \notin DOMAIN usage

\* ---------------------------------------------------------------------------
\* incrementUsage when its durable write fails
\* ---------------------------------------------------------------------------

\* A step of an incrementUsage call whose batch has not succeeded: the start
\* of the call, the failure of the batch, the return after the failure
FailedIncrementStep ==
  \E t \in Tasks :
    /\ tasks'[t] # tasks[t]
    /\ tasks'[t].top = "incrementUsage"
    /\ tasks'[t].batchSt # "ok"

\* The incrementUsage calls that returned after their batch had failed
FailedIncrements ==
  {t \in Tasks : /\ tasks[t].top = "incrementUsage"
                 /\ tasks[t].pc = "done"
                 /\ tasks[t].batchSt = "failed"}

\* C38: when the durable write of incrementUsage fails, no step of the call
\* changes a durable count, monthly or daily, or the Local Tier with its
\* usage snapshot
C38_FailedWriteChangesNothing ==
  [][FailedIncrementStep => usage' = usage /\ l1' = l1]_vars

\* A call has returned after a failed batch: the monthly and the daily row are
\* as at the start, and the live snapshot of the period holds the same count
C38_Witness ==
  \E t \in FailedIncrements :
    LET key == UsageKey(tasks[t].incOrg, tasks[t].incPeriod)
        monthly == <<tasks[t].incOrg, tasks[t].incPeriod>>
        daily == <<tasks[t].incOrg, tasks[t].incDaily>>
    IN /\ MemoryCacheLive(l1, key, now)
       /\ monthly \in DOMAIN usage /\ daily \in DOMAIN usage
       /\ usage = usage0
       /\ l1[key].value.count = usage[monthly]

\* ---------------------------------------------------------------------------
\* getPlanInfo over the rows of subscription
\* ---------------------------------------------------------------------------

PlanTickLen == 150
MaxPlanElapsed == 450

\* The plans and statuses of a row: "team" stands for any plan the code does
\* not name, "canceled" for any status it does not name
PlanNames == {"pro", "enterprise", "team"}
PlanStatuses == {"active", "trialing", "canceled"}

\* The subscription table: no row for o2, or one row
PlanSubscriptions ==
  {EmptyMap} \cup {[o \in {"o2"} |-> [plan |-> p, status |-> s]] :
                     p \in PlanNames, s \in PlanStatuses}

\* A caller calls checkUsageLimit(env, 'o2'), which calls getPlanInfo. The
\* call remembers the row of the org and whether a plan was cached at its start.
PlanCheckUsageLimit(t) ==
  /\ CanStartSeq(t)
  /\ LET start == With(SeqStart("checkUsageLimit"),
                       [rowAtStart |-> SelectSubscription(subscription, "o2"),
                        planHit |-> MemoryCacheLive(l1, PlanKey("o2"), now)])
         r == CheckUsageLimitCall(start, "o2", l1, now)
     IN /\ tasks' = [tasks EXCEPT ![t] = r.task]
        /\ l1' = r.l1
  /\ UNCHANGED <<clock, kv, d1>>

\* Between two calls the billing webhook writes the row of o2, or removes it
UpdateSubscription ==
  /\ NoCallInFlight
  /\ \E s \in PlanSubscriptions :
       /\ s # subscription
       /\ subscription' = s
  /\ UNCHANGED <<clock, l1, kv, usage, usage0, apikey, prompt, prompt_version, tasks>>

TickPlan ==
  /\ NoCallInFlight
  /\ Advance(PlanTickLen, MaxPlanElapsed)

InitPlan ==
  /\ epoch = 0
  /\ now = epoch
  /\ isolate = 0
  /\ l1 = EmptyMap
  /\ kv = EmptyMap
  /\ apikey = EmptyMap
  /\ prompt = EmptyMap
  /\ prompt_version = {}
  /\ subscription \in PlanSubscriptions
  /\ usage = EmptyMap
  /\ usage0 = usage
  /\ tasks = [t \in Callers |-> IdleTask]

NextPlan ==
  \/ \E t \in Callers : PlanCheckUsageLimit(t)
  \/ \E t \in Callers : D1SelectSubscription(t)
  \/ \E t \in Callers : GetPlanInfoResume(t)
  \/ \E t \in Callers : D1SelectCount(t)
  \/ \E t \in Callers : CheckUsageLimitResume(t)
  \/ UpdateSubscription
  \/ TickPlan

SpecPlan == InitPlan /\ [][NextPlan]_vars

PlanCalls == {t \in Callers : tasks[t].top = "checkUsageLimit" /\ tasks[t].pc = "done"}

\* The plan the documentation gives for a row
DocumentedPlan(row) ==
  LET live == NotNull(row) /\ (Val(row).status = "active" \/ Val(row).status = "trialing")
  IN IF live /\ Val(row).plan = "enterprise"
       THEN [plan |-> "enterprise", limit |-> Null]
       ELSE IF live /\ Val(row).plan = "pro"
              THEN [plan |-> "pro", limit |-> Some(50000)]
              ELSE [plan |-> "free", limit |-> Some(5000)]

\* Call a queried the row and call b started within 300 s of it
WithinPlanTtl(a, b) ==
  /\ a \in tasks[b].after
  /\ ~tasks[a].planHit
  /\ tasks[a].at <= tasks[b].at
  /\ tasks[b].at < tasks[a].at + 300

\* C39: a call that finds no cached plan resolves the row as documented
\* (enterprise or pro only with status active or trialing, free otherwise);
\* a call finds a cached plan exactly when a call that queried the row started
\* less than 300 s before it, and then it answers with that call's plan
C39_PlanOfSubscription ==
  \A b \in PlanCalls :
    /\ ~tasks[b].planHit => Val(tasks[b].planInfo) = DocumentedPlan(tasks[b].rowAtStart)
    /\ tasks[b].planHit <=> \E a \in PlanCalls : WithinPlanTtl(a, b)
    /\ \A a \in PlanCalls : WithinPlanTtl(a, b) => tasks[b].planInfo = tasks[a].planInfo

\* A call resolved a trialing pro row to pro with limit 50000; the row was
\* then canceled, and a call 150 s later still answered pro from the cache
C39_Witness ==
  \E a, b \in PlanCalls :
    /\ WithinPlanTtl(a, b)
    /\ tasks[a].rowAtStart = Some([plan |-> "pro", status |-> "trialing"])
    /\ Val(tasks[a].planInfo) = [plan |-> "pro", limit |-> Some(PRO_LIMIT)]
    /\ tasks[b].at = tasks[a].at + PlanTickLen
    /\ tasks[b].rowAtStart = Some([plan |-> "pro", status |-> "canceled"])
    /\ Val(tasks[b].planInfo).plan = "pro"

\* Calls resolved to free: with a canceled enterprise row, and 300 s later
\* with an active row of a plan the code does not name
C39_WitnessFree ==
  \E b, c \in PlanCalls :
    /\ tasks[b].rowAtStart = Some([plan |-> "enterprise", status |-> "canceled"])
    /\ ~tasks[b].planHit
    /\ tasks[c].rowAtStart = Some([plan |-> "team", status |-> "active"])
    /\ ~tasks[c].planHit
    /\ tasks[c].at = tasks[b].at + 300
    /\ \A t \in {b, c} :
         Val(tasks[t].planInfo) = [plan |-> "free", limit |-> Some(FREE_LIMIT)]

\* ---------------------------------------------------------------------------
\* The monthly count against the daily counts of its month
\* ---------------------------------------------------------------------------

\* The rows of api_usage of the days of a month, for an org
DailyRowsOf(org, period) ==
  {k \in DOMAIN usage : /\ k[1] = org
                        /\ Len(k[2]) = 3
                        /\ <<k[2][1], k[2][2]>> = period}

RECURSIVE SumOfCounts(_)
SumOfCounts(keys) ==
  IF keys = {} THEN 0
  ELSE LET k == CHOOSE x \in keys : TRUE
       IN usage[k] + SumOfCounts(keys \ {k})

\* The months that have a row, monthly or daily
MonthsWithRows ==
  {<<k[1], <<k[2][1], k[2][2]>>>> : k \in DOMAIN usage}

\* The clock starts one tick before a day ends: the last day of a month, or
\* its first day
DayStartTimes ==
  {DaysPerMonth * SecondsPerDay - TickLen, SecondsPerDay - TickLen}

InitDays ==
  /\ epoch \in DayStartTimes
  /\ now = epoch
  /\ isolate = 0
  /\ l1 = EmptyMap
  /\ kv = EmptyMap
  /\ apikey = EmptyMap
  /\ prompt = EmptyMap
  /\ prompt_version = {}
  /\ subscription \in SubscriptionRows
  /\ usage \in InitUsageTables(subscription, epoch)
  /\ usage0 = usage
  /\ tasks = [t \in Tasks |-> IdleTask]

SpecDays == InitDays /\ [][NextUsage]_vars

\* C40: for every tenant and calendar month, the durable monthly count equals
\* the sum of the durable daily counts of that month, after any incrementUsage
\* calls, also those that start in one month and are stored in the next
C40_MonthlyIsSumOfDaily ==
  \A m \in MonthsWithRows :
    DurableCount(m[1], m[2]) = SumOfCounts(DailyRowsOf(m[1], m[2]))

\* An incrementUsage call that read its periods in the old month has been
\* stored while the clock is in the new month, and a call of the new month has
\* been stored too: both months have their monthly and daily rows
C40_Witness ==
  \E t, u \in Tasks :
    /\ tasks[t].top = "incrementUsage" /\ tasks[u].top = "incrementUsage"
    /\ tasks[t].batchSt = "ok" /\ tasks[u].batchSt = "ok"
    /\ tasks[t].incOrg = tasks[u].incOrg
    /\ tasks[t].incPeriod = getCurrentPeriod(epoch)
    /\ tasks[u].incPeriod = getCurrentPeriod(now)
    /\ tasks[t].incPeriod # tasks[u].incPeriod
    /\ tasks[t].pc = "inc_wait"
    /\ DurableCount(tasks[t].incOrg, tasks[t].incPeriod) > 0
    /\ DurableCount(tasks[u].incOrg, tasks[u].incDaily) > 0

\* Calls of two days of one month have been stored: the monthly row counts
\* both, each daily row its own
C40_WitnessTwoDays ==
  \E t, u \in Tasks :
    /\ tasks[t].top = "incrementUsage" /\ tasks[u].top = "incrementUsage"
    /\ tasks[t].batchSt = "ok" /\ tasks[u].batchSt = "ok"
    /\ tasks[t].incOrg = tasks[u].incOrg
    /\ tasks[t].incPeriod = tasks[u].incPeriod
    /\ tasks[t].incDaily # tasks[u].incDaily
    /\ Cardinality(DailyRowsOf(tasks[t].incOrg, tasks[t].incPeriod)) = 2
    /\ DurableCount(tasks[t].incOrg, tasks[t].incPeriod)
         = RowCount(usage0, <<tasks[t].incOrg, tasks[t].incPeriod>>) + 2

====
